---- MODULE Spec2Model ----
(***************************************************************************)
(* Retrieval-native benchmark (le0-reference): the snippet deduplication   *)
(* tracker, the two prompt-assembly protocols, the run orchestrators of    *)
(* compare_runner.py and le0_runner.py, and the diagnostic classifier.     *)
(*                                                                         *)
(* An optional value (Python None / an absent dict key) is the empty       *)
(* sequence <<>>, a present value v is <<v>>.                              *)
(***************************************************************************)
EXTENDS Integers, Sequences, FiniteSets, TLC

\* ------------------------------------------------------------------ bounds
MaxTasks == 2
NumTexts == 3
MaxRuns == 3
MaxReuse == 3
MetricTasks == 1
NumVersions == 2
MaxLoads == 2
MaxFlows == 2
NumInputVersions == 2
MaxFlowOps == 4
NumFlowFiles == 2
MaxCalls == 6
LongNameLen == 2100
MaxResolved == 3
MaxRules == 2
MaxTime == 1
MaxClock == 93

\* ------------------------------------------------------- program constants
NumSteps == 3
LookupsPerTask == 3
BytesPerToken == 4
PriorOutputLimit == 1500
IdHexLen == 16
ToleranceBand == 10
NumTasksCap == 25
MAX_SNIPPET_SIZE == 2000
ContextLimit == 500
MaxMatches == 3
FixtureDefaultTtl == 60
TestTtl == 30

VARIABLES
    entry,          \* which program drives the process
    backend,        \* the responses the backend adapter can give in this process
    numTasks,       \* NUM_TASKS as read from the environment
    catalog,        \* task index -> texts its queries resolve to, in query order
    pc,             \* "idle" | "baseline" | "treatment" | "le0" | "done" | "raised"
    runs,           \* number of runs started in this process
    tracker,        \* the SnippetTracker of the running (or last) treatment session
    i,              \* task index of the running loop
    step,           \* index into STEP_NAMES of the next step of task i
    prior,          \* prior outputs of the current task
    task,           \* per-task accumulator of the running loop
    totals,         \* whole-run accumulator of the running loop
    task_avoided,   \* run_treatment local
    total_avoided,  \* run_treatment local
    all_tasks,      \* per-task records of the running loop
    baselineR,      \* result of the last completed run_baseline, optional
    treatmentR,     \* result of the last completed run_treatment, optional
    le0R,           \* result of the last completed execute_treatment, optional
    report,         \* result of print_comparison, optional
    prompt,         \* the prompt assembled last
    reports,        \* history: what the backend reported as reused in the running session
    trace,          \* history: one record per step call of the running session
    history,        \* history: decisions of every completed treatment session
    calls,          \* history: the direct calls made on an object so far (latest last)
    failed,         \* history: the backend call that raised, optional
    root,           \* the content root: file -> version of its content (0: absent)
    _file_cache,    \* repo_tool._file_cache of each process: file -> version, optional
    resolved,       \* history: the repo_lookup calls made so far (latest last)
    loads,          \* the _load_file calls in progress in the threads of process 1
    flows,          \* the flows/ directory of run_flow and the inputs it is built from
    served,         \* target_vllm's module state and the run calls it received
    rules,          \* RuleEngine.rules
    ticket,         \* the Ticket under update and escalation
    cache,          \* MemoryCache._entries
    now             \* the clock, in seconds

vars == <<entry, backend, numTasks, catalog, pc, runs, tracker, i, step, prior,
          task, totals, task_avoided, total_avoided, all_tasks, baselineR,
          treatmentR, le0R, report, prompt, reports, trace, history, calls, failed,
          root, _file_cache, resolved, loads, flows, served, rules, ticket, cache, now>>

None == <<>>
Some(v) == <<v>>
Get(opt, default) == IF opt = <<>> THEN default ELSE opt[1]

RECURSIVE SumSeq(_)
SumSeq(s) == IF s = <<>> THEN 0 ELSE s[1] + SumSeq(Tail(s))

Max2(a, b) == IF a >= b THEN a ELSE b
Min2(a, b) == IF a <= b THEN a ELSE b
Abs(x) == IF x < 0 THEN -x ELSE x

\* --------------------------------------------------------------- snippets
Texts == 1..NumTexts

\* UTF-8 byte length of a snippet text.
TextBytes(t) == 9 * t + 2

\* sha256(text).hexdigest()[:16]: a function of the text alone.
_get_snippet_id(t) == <<"sha256", t>>

Ids == {_get_snippet_id(t) : t \in Texts}

\* Variant: the verifier is called before the executor.
STEP_NAMES_swapped == <<"planner", "verifier", "executor">>

STEP_NAMES == <<"planner", "executor", "verifier">>

\* len(text.encode('utf-8')) // 4 on a byte length.
count_tokens(bytes) == bytes \div BytesPerToken

\* ---------------------------------------------------------- SnippetTracker
SnippetTracker == [seen_ids |-> {}, snippets |-> <<>>, total_sent |-> 0, reuse_hits |-> 0]

has_seen(tr, id) == id \in tr.seen_ids

\* Variant: a repeated id is dropped from the seen set.
record_forgetful(tr, id, text) ==
    IF id \in tr.seen_ids
    THEN [tracker |-> [tr EXCEPT !.seen_ids = @ \ {id},
                                 !.total_sent = @ - 1,
                                 !.reuse_hits = @ + 1],
          ret |-> FALSE]
    ELSE [tracker |-> [tr EXCEPT !.seen_ids = @ \cup {id},
                                 !.snippets = @ @@ (id :> text),
                                 !.total_sent = @ + 1],
          ret |-> TRUE]

\* Variant: a repeated id is counted as sent instead of as a reuse hit.
record_miscount(tr, id, text) ==
    IF id \in tr.seen_ids
    THEN [tracker |-> [tr EXCEPT !.total_sent = @ + 1], ret |-> FALSE]
    ELSE [tracker |-> [tr EXCEPT !.seen_ids = @ \cup {id},
                                 !.snippets = @ @@ (id :> text),
                                 !.total_sent = @ + 1],
          ret |-> TRUE]

\* Variant: every id is treated as new.
record_never_seen(tr, id, text) ==
    [tracker |-> [tr EXCEPT !.seen_ids = @ \cup {id},
                            !.snippets = @ @@ (id :> text),
                            !.total_sent = @ + 1],
     ret |-> TRUE]

\* Variant: a repeated id is refused without being counted.
record_silent_repeat(tr, id, text) ==
    IF id \in tr.seen_ids
    THEN [tracker |-> tr, ret |-> FALSE]
    ELSE [tracker |-> [tr EXCEPT !.seen_ids = @ \cup {id},
                                 !.snippets = @ @@ (id :> text),
                                 !.total_sent = @ + 1],
          ret |-> TRUE]

\* record: the new tracker and the returned flag (True = newly seen).
record(tr, id, text) ==
    IF id \in tr.seen_ids
    THEN [tracker |-> [tr EXCEPT !.reuse_hits = @ + 1], ret |-> FALSE]
    ELSE [tracker |-> [tr EXCEPT !.seen_ids = @ \cup {id},
                                 !.snippets = @ @@ (id :> text),
                                 !.total_sent = @ + 1],
          ret |-> TRUE]

\* Variant: the division is made without looking at the denominator.
get_reuse_rate_unguarded(tr) == <<tr.reuse_hits, tr.total_sent + tr.reuse_hits>>

\* Variant: reuse hits over snippets sent rather than over all lookups.
get_reuse_rate_of_sent(tr) ==
    IF tr.total_sent = 0 THEN <<0, 1>> ELSE <<tr.reuse_hits, tr.total_sent>>

\* get_reuse_rate as the exact fraction <<numerator, denominator>>; 0.0 is <<0, 1>>.
get_reuse_rate(tr) ==
    LET total == tr.total_sent + tr.reuse_hits
    IN  IF total = 0 THEN <<0, 1>> ELSE <<tr.reuse_hits, total>>

\* ------------------------------------------------------------ repo lookups
\* Variant: the id is a hash of the query rather than of the text.
lookup_result_id_of_query(q, t) ==
    [query |-> q,
     source_path |-> <<"path", q>>,
     line_range |-> <<"lines", q>>,
     snippet_text |-> t,
     snippet_id |-> <<"sha256", q>>,
     token_estimate |-> TextBytes(t) \div BytesPerToken]

\* The record repo_lookup returns for a query that resolves to text t; the
\* query is named by its place <<task, position>> in the catalog.
lookup_result(q, t) ==
    [query |-> q,
     source_path |-> <<"path", q>>,
     line_range |-> <<"lines", q>>,
     snippet_text |-> t,
     snippet_id |-> _get_snippet_id(t),
     token_estimate |-> TextBytes(t) \div BytesPerToken]

\* get_predefined_lookups: the queries of a task, in catalog order.
get_predefined_lookups(task_idx) == [k \in 1..Len(catalog[task_idx]) |-> <<task_idx, k>>]

execute_lookups(task_idx) ==
    LET queries == get_predefined_lookups(task_idx)
    IN  [k \in 1..Len(queries) |-> lookup_result(queries[k], catalog[task_idx][k])]

\* --------------------------------------------------------- prompt assembly
\* A prompt is the list `parts` that "\n".join turns into the prompt string.
Digits(n) == IF n < 10 THEN 1 ELSE 2
TaskTextBytes(task_idx) == 40 + task_idx
PathBytes(p) == 30
RangeBytes(r) == 7
TitleBytes(step_name) == IF step_name = "planner" THEN 7 ELSE 8
InstructionBytes(step_name) ==
    IF step_name = "planner" THEN 72
    ELSE IF step_name = "executor" THEN 67
    ELSE IF step_name = "verifier" THEN 63
    ELSE TitleBytes(step_name)

\* output[:1500] + "..." if len(output) > 1500 else output
BoundedLen(len) == IF len > PriorOutputLimit THEN PriorOutputLimit + 3 ELSE len

PartBytes(p) ==
    CASE p.kind = "header" -> 10 + Digits(p.task_idx) + TaskTextBytes(p.task_idx)
      [] p.kind = "snippets_heading" -> 28
      [] p.kind = "snippet_label" -> 22 + PathBytes(p.source_path) + RangeBytes(p.line_range)
      [] p.kind = "snippet_id_label" ->
             25 + IdHexLen + PathBytes(p.source_path) + RangeBytes(p.line_range)
      [] p.kind = "snippet_text" -> 9 + TextBytes(p.snippet_text)
      [] p.kind = "snippet_reference" -> 45 + IdHexLen
      [] p.kind = "prior_heading" -> 22
      [] p.kind = "prior_output" -> 13 + (IF p.index = 1 THEN 7 ELSE 8) + p.bounded_len
      [] p.kind = "instruction" -> 16 + TitleBytes(p.step_name) + InstructionBytes(p.step_name)

RECURSIVE PartsBytes(_)
PartsBytes(parts) ==
    IF parts = <<>> THEN 0 ELSE PartBytes(parts[1]) + PartsBytes(Tail(parts))

\* Byte length of "\n".join(parts).
PromptBytes(parts) == PartsBytes(parts) + (Len(parts) - 1)

\* Variant: the header carries how many assemblies the process made before.
HeaderPart_stamped(task_idx) ==
    [kind |-> "header", task_idx |-> task_idx, stamp |-> Len(calls)]

HeaderPart(task_idx) == [kind |-> "header", task_idx |-> task_idx]

\* Variant: only the latest prior output is carried.
PriorParts_latest_only(prior_outputs) ==
    IF prior_outputs = <<>> THEN <<>>
    ELSE <<[kind |-> "prior_heading"],
           [kind |-> "prior_output", index |-> 1,
            by |-> prior_outputs[Len(prior_outputs)].by,
            bounded_len |-> BoundedLen(prior_outputs[Len(prior_outputs)].len)]>>

\* The "Previous Analysis" section shared by both builders.
PriorParts(prior_outputs) ==
    IF prior_outputs = <<>> THEN <<>>
    ELSE <<[kind |-> "prior_heading"]>> \o
         [k \in 1..Len(prior_outputs) |->
             [kind |-> "prior_output", index |-> k, by |-> prior_outputs[k].by,
              bounded_len |-> BoundedLen(prior_outputs[k].len)]]

InstructionPart(step_name) == [kind |-> "instruction", step_name |-> step_name]

RECURSIVE BaselineSnippetParts(_)
BaselineSnippetParts(lookups) ==
    IF lookups = <<>> THEN <<>>
    ELSE <<[kind |-> "snippet_label", source_path |-> lookups[1].source_path,
            line_range |-> lookups[1].line_range],
           [kind |-> "snippet_text", snippet_text |-> lookups[1].snippet_text]>>
         \o BaselineSnippetParts(Tail(lookups))

\* Variant: snippets are embedded only at a task's first step.
build_step_prompt_baseline_first_step_only(task_idx, step_name, lookups, prior_outputs) ==
    <<HeaderPart(task_idx)>>
    \o (IF lookups # <<>> /\ prior_outputs = <<>>
        THEN <<[kind |-> "snippets_heading"]>> \o BaselineSnippetParts(lookups)
        ELSE <<>>)
    \o PriorParts(prior_outputs)
    \o <<InstructionPart(step_name)>>

build_step_prompt_baseline(task_idx, step_name, lookups, prior_outputs) ==
    <<HeaderPart(task_idx)>>
    \o (IF lookups # <<>>
        THEN <<[kind |-> "snippets_heading"]>> \o BaselineSnippetParts(lookups)
        ELSE <<>>)
    \o PriorParts(prior_outputs)
    \o <<InstructionPart(step_name)>>

\* Variant: every lookup of a step is decided against the tracker as the step found it.
RECURSIVE TreatmentSnippetLoop_step_snapshot(_, _)
TreatmentSnippetLoop_step_snapshot(lookups, tr) ==
    IF lookups = <<>> THEN [parts |-> <<>>, tracker |-> tr, is_new |-> <<>>]
    ELSE LET lookup == lookups[1]
             r == record(tr, lookup.snippet_id, lookup.snippet_text)
             rest == TreatmentSnippetLoop_step_snapshot(Tail(lookups), tr)
             mine == IF r.ret
                     THEN <<[kind |-> "snippet_id_label", snippet_id |-> lookup.snippet_id,
                             source_path |-> lookup.source_path,
                             line_range |-> lookup.line_range],
                            [kind |-> "snippet_text", snippet_text |-> lookup.snippet_text]>>
                     ELSE <<[kind |-> "snippet_reference", snippet_id |-> lookup.snippet_id]>>
         IN  [parts |-> mine \o rest.parts,
              tracker |-> record(rest.tracker, lookup.snippet_id, lookup.snippet_text).tracker,
              is_new |-> <<r.ret>> \o rest.is_new]

\* Variant: the lookups are recorded and rendered last first.
RECURSIVE TreatmentSnippetLoop_last_first(_, _)
TreatmentSnippetLoop_last_first(lookups, tr) ==
    IF lookups = <<>> THEN [parts |-> <<>>, tracker |-> tr, is_new |-> <<>>]
    ELSE LET lookup == lookups[Len(lookups)]
             r == record(tr, lookup.snippet_id, lookup.snippet_text)
             rest == TreatmentSnippetLoop_last_first(SubSeq(lookups, 1, Len(lookups) - 1),
                                                     r.tracker)
             mine == IF r.ret
                     THEN <<[kind |-> "snippet_id_label", snippet_id |-> lookup.snippet_id,
                             source_path |-> lookup.source_path,
                             line_range |-> lookup.line_range],
                            [kind |-> "snippet_text", snippet_text |-> lookup.snippet_text]>>
                     ELSE <<[kind |-> "snippet_reference", snippet_id |-> lookup.snippet_id]>>
         IN  [parts |-> mine \o rest.parts, tracker |-> rest.tracker,
              is_new |-> <<r.ret>> \o rest.is_new]

\* The loop over lookups of build_step_prompt_treatment: the parts it appends,
\* the tracker it leaves and the flags record returned, in lookup order.
RECURSIVE TreatmentSnippetLoop(_, _)
TreatmentSnippetLoop(lookups, tr) ==
    IF lookups = <<>> THEN [parts |-> <<>>, tracker |-> tr, is_new |-> <<>>]
    ELSE LET lookup == lookups[1]
             r == record(tr, lookup.snippet_id, lookup.snippet_text)
             rest == TreatmentSnippetLoop(Tail(lookups), r.tracker)
             mine == IF r.ret
                     THEN <<[kind |-> "snippet_id_label", snippet_id |-> lookup.snippet_id,
                             source_path |-> lookup.source_path,
                             line_range |-> lookup.line_range],
                            [kind |-> "snippet_text", snippet_text |-> lookup.snippet_text]>>
                     ELSE <<[kind |-> "snippet_reference", snippet_id |-> lookup.snippet_id]>>
         IN  [parts |-> mine \o rest.parts, tracker |-> rest.tracker,
              is_new |-> <<r.ret>> \o rest.is_new]

build_step_prompt_treatment(task_idx, step_name, lookups, prior_outputs, tr) ==
    LET loop == TreatmentSnippetLoop(lookups, tr)
    IN  [prompt |-> <<HeaderPart(task_idx)>>
                    \o (IF lookups # <<>>
                        THEN <<[kind |-> "snippets_heading"]>> \o loop.parts
                        ELSE <<>>)
                    \o PriorParts(prior_outputs)
                    \o <<InstructionPart(step_name)>>,
         tracker |-> loop.tracker,
         is_new |-> loop.is_new]

\* ---------------------------------------------------------- backend adapter
\* What run_prompt hands back: the output text (its length; `by` names the
\* call that produced it) and the metrics dict, every key of which may be absent.
Metrics(out_tok, lat, pre, dec, computed, reused, energy) ==
    [output_tokens |-> out_tok, latency_ms |-> lat, prefill_ms |-> pre,
     decode_ms |-> dec, prefill_tokens_computed |-> computed,
     reused_tokens |-> reused, energy_j |-> energy]

PlainResponse ==
    [out_len |-> 12,
     metrics |-> Metrics(Some(3), Some(5), Some(2), Some(3), Some(7), None, None)]

Responses ==
    { PlainResponse,
      [out_len |-> 12,
       metrics |-> Metrics(Some(9), Some(8), Some(6), Some(2), Some(5), Some(0), Some(2))],
      [out_len |-> 12,
       metrics |-> Metrics(None, None, None, None, None, Some(4), None)] }

\* ------------------------------------------------------------ accumulators
NewTask == [client |-> 0, output |-> 0, latency |-> 0, prefill_ms |-> 0, decode_ms |-> 0]

NewTotals ==
    [client_tokens |-> 0, output_tokens |-> 0, latency_ms |-> 0, energy_j |-> 0,
     prefill_ms |-> 0, decode_ms |-> 0, prefill_tokens_computed |-> 0,
     reused_tokens |-> None]

\* The per-step updates of the task dict (compare_runner.py 37-43, 104-110).
TaskAfterStep(t, parts, m) ==
    [t EXCEPT !.client = @ + count_tokens(PromptBytes(parts)),
              !.output = @ + Get(m.output_tokens, 0),
              !.latency = @ + Get(m.latency_ms, 0),
              !.prefill_ms = @ + Get(m.prefill_ms, 0),
              !.decode_ms = @ + Get(m.decode_ms, 0)]

\* Variant: an absent count is added as 0.
ReusedAfterStep_zero_default(total, step_reused) ==
    Some(Get(total, 0) + Get(step_reused, 0))

ReusedAfterStep(total, step_reused) ==
    IF step_reused # None THEN Some(Get(total, 0) + step_reused[1]) ELSE total

\* The per-step updates of the totals dict (compare_runner.py 44-49, 111-116).
TotalsAfterStep(tot, m) ==
    [tot EXCEPT !.prefill_tokens_computed = @ + Get(m.prefill_tokens_computed, 0),
                !.reused_tokens = ReusedAfterStep(@, m.reused_tokens),
                !.energy_j = @ + Get(m.energy_j, 0)]

\* The per-task updates of the totals dict (compare_runner.py 51-55, 119-123).
TotalsAfterTask(tot, t) ==
    [tot EXCEPT !.client_tokens = @ + t.client,
                !.output_tokens = @ + t.output,
                !.latency_ms = @ + t.latency,
                !.prefill_ms = @ + t.prefill_ms,
                !.decode_ms = @ + t.decode_ms]

\* sum(l["token_estimate"] for l in lookups if keep(l)), keep given per position.
SumEstimates(lookups, keep) ==
    SumSeq([k \in 1..Len(lookups) |-> IF keep[k] THEN lookups[k].token_estimate ELSE 0])

\* sum(1 for l in lookups if keep(l)), keep given per position.
CountLookups(lookups, keep) ==
    SumSeq([k \in 1..Len(lookups) |-> IF keep[k] THEN 1 ELSE 0])

\* [tracker.has_seen(l["snippet_id"]) for l in lookups]
SeenFlags(lookups, tr) == [k \in 1..Len(lookups) |-> has_seen(tr, lookups[k].snippet_id)]

\* a / b as the exact fraction <<a, b>>.
Frac(a, b) == <<a, b>>

\* (part / whole * 100) if whole > 0 else 0
PctOf(part, whole) == IF whole > 0 THEN Frac(part * 100, whole) ELSE Frac(0, 1)

\* The snippet section of a prompt, in prompt order.
SnippetEntries(parts) ==
    SelectSeq(parts, LAMBDA p : p.kind \in {"snippet_label", "snippet_id_label",
                                            "snippet_text", "snippet_reference"})

\* Its label and reference lines: one per rendered lookup.
EntryLines(entries) == SelectSeq(entries, LAMBDA p : p.kind # "snippet_text")

\* The texts it embeds.
EmbeddedTexts(entries) ==
    {entries[k].snippet_text : k \in {j \in 1..Len(entries) : entries[j].kind = "snippet_text"}}

\* Whether some step reported a reused-token count, and whether one was > 0.
NoReports == [any |-> FALSE, positive |-> FALSE, absent |-> FALSE, sum |-> 0]
ReportsAfterStep(r, step_reused) ==
    [any |-> r.any \/ step_reused # None,
     positive |-> r.positive \/ (step_reused # None /\ Get(step_reused, 0) > 0),
     absent |-> r.absent \/ step_reused = None,
     sum |-> r.sum + Get(step_reused, 0)]

\* ------------------------------------------------------------ content root
\* The python files under base_dir, in sorted path order; a file's content is
\* named by its version, 0 when the file does not exist.
Files == <<"router.py", "storage.py">>
FileSet == {Files[k] : k \in 1..Len(Files)}
Versions == 0..NumVersions
\* The content "" that _load_file caches for a file it could not read.
Blank == 0 - 1
Words == {"route", "py", "ghost"}
\* A name that holds a lone surrogate code point (a str UTF-8 cannot encode).
IllFormedWords == {"surrogate"}

\* What the text of version v of file f holds: its lines (all of one width,
\* joined by newlines), the two-byte characters of its first line, the
\* definitions a regular expression finds in it and the lines holding a keyword.
Content(f, v) ==
    IF v = Blank
    THEN [lines |-> 1, width |-> 0, wide |-> 0, funcs |-> <<>>, classes |-> <<>>,
          hits |-> <<>>]
    ELSE IF f = "router.py"
    THEN IF v = 1
         THEN [lines |-> 3, width |-> 39, wide |-> 0,
               funcs |-> [w \in {"route"} |-> [at |-> 2, lines |-> 2, chars |-> 60]],
               classes |-> <<>>,
               hits |-> [w \in {"route"} |-> <<2>>]]
         ELSE [lines |-> 70 + v, width |-> 39, wide |-> 0,
               funcs |-> [w \in {"route"} |-> [at |-> 4, lines |-> 61, chars |-> 2400 + v]],
               classes |-> [w \in {"route"} |-> [at |-> 1, lines |-> 70, chars |-> 2700 + v]],
               hits |-> [w \in {"route"} |-> <<2, 5, 9, 12>>]]
    ELSE IF v = 1
         THEN [lines |-> 2, width |-> 39, wide |-> 3,
               funcs |-> <<>>,
               classes |-> <<>>,
               hits |-> [w \in {"route"} |-> <<1>>]]
         ELSE [lines |-> 1 + v, width |-> 39, wide |-> 3,
               funcs |-> [w \in {"route"} |-> [at |-> 1, lines |-> 1 + v, chars |-> 40 * v]],
               classes |-> <<>>,
               hits |-> [w \in {"route"} |-> <<1, 2>>]]

\* pattern.lower() in path.name.lower()
NameContains(f, w) == w = "py" \/ (w = "route" /\ f = "router.py")

\* Characters of n whole lines joined by newlines.
JoinedChars(n, width) == IF n <= 0 THEN 0 ELSE n * (width + 1) - 1

\* A text is its identity `body` with its length in characters and in UTF-8 bytes.
Text(body, chars, bytes) == [body |-> body, chars |-> chars, bytes |-> bytes]

\* s[:MAX_SNIPPET_SIZE] of a text whose two-byte characters come first.
Truncated(body, chars, wide) ==
    LET kept == Min2(chars, MAX_SNIPPET_SIZE)
    IN  Text(body, kept, kept + Min2(wide, kept))

\* ------------------------------------------------------------------ queries
\* A query "kind:name[:suffix]"; `chars` is the length of the name and the
\* suffix is absent, without a dash, with a dash but not two integers, or a
\* line range.
NoSuffix == <<"none">>
PlainSuffix == <<"nodash">>
BadSuffix == <<"bad">>
LineSuffix(a, b) == <<"range", a, b>>

Query(kind, word, chars, suffix) ==
    [kind |-> kind, word |-> word, chars |-> chars, suffix |-> suffix]

WordChars(w) == IF w = "py" THEN 2 ELSE 5
SuffixChars(x) == IF x = NoSuffix THEN 0 ELSE 4
KindChars(kind) ==
    CASE kind = "file" -> 5
      [] kind = "func" -> 5
      [] kind = "class" -> 6
      [] kind = "search" -> 7
      [] OTHER -> 4
QueryChars(q) == KindChars(q.kind) + q.chars + SuffixChars(q.suffix)

Queries ==
    {Query(kind, w, WordChars(w), NoSuffix) :
         kind \in {"file", "func", "class", "search", "other"}, w \in Words}
    \cup {Query("file", "route", WordChars("route"), x) :
              x \in {PlainSuffix, BadSuffix, LineSuffix(2, 3), LineSuffix(3, 2),
                     LineSuffix(0, 99)}}
    \cup {Query(kind, "ghost", LongNameLen, NoSuffix) :
              kind \in {"file", "func", "class", "search", "other"}}
    \cup {Query(kind, w, WordChars(w), NoSuffix) :
              kind \in {"file", "func", "class", "search", "other"}, w \in IllFormedWords}

\* f"# File not found: {filename}" and its siblings: the name the message
\* quotes is the query's own (the whole query for an unknown format).
NotFoundText(q) ==
    LET quoted == IF q.kind \in {"file", "func", "class", "search"}
                  THEN q.chars ELSE QueryChars(q)
        lead == CASE q.kind = "file" -> 18
                  [] q.kind = "func" -> 22
                  [] q.kind = "class" -> 19
                  [] q.kind = "search" -> 18
                  [] OTHER -> 24
    IN  Text(<<"placeholder", q.kind, q.word, quoted>>, lead + quoted, lead + quoted)

\* ------------------------------------------------------------- repo_lookup
\* What open(filepath).read() yields: the content on disk, or "" when opening
\* or reading raises (the except branch).
ReadOrBlank(f, rt) == IF rt.readable[f] /\ rt.version[f] # 0 THEN rt.version[f] ELSE Blank

\* _load_file: the cached content if the path is cached, else the content on
\* disk, which is then cached.
_load_file(f, rt, fc) ==
    IF fc[f] # None THEN [version |-> fc[f][1], cache |-> fc]
    ELSE [version |-> ReadOrBlank(f, rt), cache |-> [fc EXCEPT ![f] = Some(ReadOrBlank(f, rt))]]

\* _find_files_by_pattern: the existing files whose name holds the pattern, sorted.
_find_files_by_pattern(rt, w) ==
    SelectSeq(Files, LAMBDA f : rt.version[f] # 0 /\ NameContains(f, w))

\* Path(base_dir).rglob("*.py"): the existing files in directory order.
Rglob(rt) == SelectSeq(rt.scan, LAMBDA f : rt.version[f] # 0)

\* _extract_lines(content, start, end)
_extract_lines(f, v, start, end) ==
    LET c == Content(f, v)
        first == Max2(1, start)
        last == Min2(c.lines, end)
    IN  [text |-> Truncated(<<"lines", f, v, first, last>>,
                            JoinedChars(last - first + 1, c.width),
                            IF first = 1 /\ last >= 1 THEN c.wide ELSE 0),
         line_range |-> <<first, last>>]

\* content[:MAX_SNIPPET_SIZE] with its line range [1, newlines + 1].
FileHead(f, v) ==
    LET c == Content(f, v)
        chars == JoinedChars(c.lines, c.width)
        kept == Min2(chars, MAX_SNIPPET_SIZE)
    IN  [text |-> Truncated(<<"head", f, v>>, chars, c.wide),
         line_range |-> <<1, (kept \div (c.width + 1)) + 1>>]

\* The loop of the func and class branches over rglob: the first file whose
\* (cached) content holds the definition.
RECURSIVE FindDefinition(_, _, _, _, _)
FindDefinition(files, kind, w, rt, fc) ==
    IF files = <<>> THEN [found |-> FALSE, cache |-> fc]
    ELSE LET loaded == _load_file(files[1], rt, fc)
             c == Content(files[1], loaded.version)
             defs == IF kind = "func" THEN c.funcs ELSE c.classes
         IN  IF loaded.version # 0 /\ w \in DOMAIN defs
             THEN [found |-> TRUE, file |-> files[1], version |-> loaded.version,
                   def |-> defs[w], cache |-> loaded.cache]
             ELSE FindDefinition(Tail(files), kind, w, rt, loaded.cache)

\* The loop of the search branch: up to three matching lines, file by file.
RECURSIVE FindMatches(_, _, _, _, _)
FindMatches(files, w, rt, fc, matches) ==
    IF files = <<>> \/ Len(matches) >= MaxMatches THEN [matches |-> matches, cache |-> fc]
    ELSE LET loaded == _load_file(files[1], rt, fc)
             c == Content(files[1], loaded.version)
             lines == IF loaded.version # 0 /\ w \in DOMAIN c.hits THEN c.hits[w] ELSE <<>>
             room == MaxMatches - Len(matches)
             taken == SubSeq(lines, 1, Min2(Len(lines), room))
             found == [k \in 1..Len(taken) |->
                          [path |-> files[1], version |-> loaded.version, line |-> taken[k],
                           context |-> Min2(JoinedChars(Min2(c.lines, taken[k] + 7)
                                                            - Max2(0, taken[k] - 3), c.width),
                                            ContextLimit)]]
         IN  FindMatches(Tail(files), w, rt, loaded.cache, matches \o found)

\* '\n\n'.join(f"# {path}:{line}\n{context}")[:MAX_SNIPPET_SIZE]
SearchText(matches) ==
    LET part(m) == 2 + PathBytes(m.path) + 1 + Digits(m.line) + 1 + m.context
        total == SumSeq([k \in 1..Len(matches) |-> part(matches[k])])
                 + 2 * (Len(matches) - 1)
    IN  Truncated(<<"search", [k \in 1..Len(matches) |->
                                  <<matches[k].path, matches[k].version, matches[k].line>>]>>,
                  total, 0)

\* text.encode('utf-8') succeeds: file content was decoded from UTF-8, a
\* placeholder quotes the caller's name, lone surrogates included.
Encodable(text) == text.body[1] = "placeholder" => text.body[3] \notin IllFormedWords

\* The record at the common exit: id and estimate are set from the final
\* text; encoding it raises UnicodeEncodeError if it cannot be encoded.
Finished(q, text, path, range, fc) ==
    IF ~Encodable(text) THEN [raised |-> TRUE, cache |-> fc]
    ELSE [raised |-> FALSE,
          cache |-> fc,
          result |-> [query |-> q,
                      source_path |-> path,
                      line_range |-> range,
                      snippet_text |-> text,
                      snippet_id |-> _get_snippet_id(text),
                      token_estimate |-> text.bytes \div BytesPerToken]]

\* The early return of the file branch: the id is set, the estimate stays 0.
FileNotFound(q, fc) ==
    IF ~Encodable(NotFoundText(q)) THEN [raised |-> TRUE, cache |-> fc]
    ELSE [raised |-> FALSE,
          cache |-> fc,
          result |-> [query |-> q,
                      source_path |-> "",
                      line_range |-> <<0, 0>>,
                      snippet_text |-> NotFoundText(q),
                      snippet_id |-> _get_snippet_id(NotFoundText(q)),
                      token_estimate |-> 0]]

\* The file branch once a file matched: the line range when the suffix parses
\* as one, the head of the file otherwise (also on ValueError).
FileFound(q, f, rt, fc) ==
    LET loaded == _load_file(f, rt, fc)
        cut == IF q.suffix[1] = "range"
               THEN _extract_lines(f, loaded.version, q.suffix[2], q.suffix[3])
               ELSE FileHead(f, loaded.version)
    IN  Finished(q, cut.text, f, cut.line_range, loaded.cache)

repo_lookup(q, rt, fc) ==
    CASE q.kind = "file" ->
             LET matches == _find_files_by_pattern(rt, q.word)
             IN  IF matches = <<>> THEN FileNotFound(q, fc)
                 ELSE FileFound(q, matches[1], rt, fc)
      [] q.kind \in {"func", "class"} ->
             LET hit == FindDefinition(Rglob(rt), q.kind, q.word, rt, fc)
             IN  IF hit.found
                 THEN Finished(q,
                               Truncated(<<q.kind, hit.file, hit.version, q.word>>,
                                         hit.def.chars, 0),
                               hit.file,
                               <<hit.def.at, hit.def.at + hit.def.lines - 1>>,
                               hit.cache)
                 ELSE Finished(q, NotFoundText(q), "", <<0, 0>>, hit.cache)
      [] q.kind = "search" ->
             LET found == FindMatches(Rglob(rt), q.word, rt, fc, <<>>)
             IN  IF found.matches # <<>>
                 THEN Finished(q, SearchText(found.matches), found.matches[1].path,
                               <<found.matches[1].line, found.matches[1].line + 10>>,
                               found.cache)
                 ELSE Finished(q, NotFoundText(q), "", <<0, 0>>, found.cache)
      [] OTHER -> Finished(q, NotFoundText(q), "", <<0, 0>>, fc)

\* The processes that import repo_tool, each with its own _file_cache.
Procs == 1..2
EmptyCache == [f \in FileSet |-> None]
CacheStates == [FileSet -> {None, Some(Blank)} \cup {Some(v) : v \in 1..NumVersions}]
ScanOrders == {Files, <<Files[2], Files[1]>>}
\* Which existing files open() and read() succeed on (permissions, encoding).
AllReadable == [f \in FileSet |-> TRUE]
ReadableStates(ver) == {rd \in [FileSet -> BOOLEAN] : \A f \in FileSet : ver[f] = 0 => rd[f]}
RootStates ==
    UNION {{[version |-> ver, scan |-> order, readable |-> rd] :
                order \in ScanOrders, rd \in ReadableStates(ver)} :
           ver \in [FileSet -> Versions]}

\* The threads (sessions) of one process that share its _file_cache; each is
\* outside _load_file ("idle") or at one of its lines.
Threads == 1..2
NoLoads ==
    [pc |-> [t \in Threads |-> "idle"],
     filepath |-> [t \in Threads |-> Files[1]],
     content |-> [t \in Threads |-> 0],
     made |-> [t \in Threads |-> 0],
     stores |-> [f \in FileSet |-> 0],
     returned |-> <<>>]

\* ---------------------------------------------------------------- run_flow
\* The prompt suite, the flow template and the fixture content are named by
\* their versions; an expanded flow file is named by what was written to it.
FlowsCap == 25
InputVersions == 1..NumInputVersions

\* _compute_hash: the SHA256 hex digest of the data.
_compute_hash(data) == <<"sha256", data>>

\* The flow build_multiple_flows writes for index n: prompt_suite[n - 1], the
\* template's input and the fixture text, in the template's other keys.
MultiFlow(n, suite, template, fixture) ==
    [input |-> <<"prompt", suite, n, "input", template, "fixture", fixture>>,
     rest |-> <<"template", template>>]

\* The flow build_fast_flows writes: a fresh task id and a fixed code snippet,
\* with the template's steps.
FastFlow(n, template, uuid) ==
    [input |-> <<"task id", uuid, n>>, rest |-> <<"steps", template>>]

\* The flow build_expanded_flow writes: the template's input and the fixture.
SingleFlow(template, fixture) ==
    [input |-> <<"input", template, "fixture", fixture>>, rest |-> <<"template", template>>]

\* min(max(1, num_flows), 25)
ClampFlows(num_flows) == Min2(Max2(1, num_flows), FlowsCap)

\* _check_cache_valid, with `files` the flows/_expanded_NN.json on disk; a
\* missing or unreadable metadata file is the empty dict, whose .get is None.
_check_cache_valid(fixture_hash, template_hash, num_flows, meta, files) ==
    /\ meta # None
    /\ meta[1].fixture_hash = fixture_hash
    /\ meta[1].template_hash = template_hash
    /\ meta[1].num_flows = num_flows
    /\ Len(meta[1].expanded_files) = num_flows
    /\ \A k \in 1..Len(meta[1].expanded_files) : files[meta[1].expanded_files[k]] # None

\* An empty flows/ directory beside first versions of the inputs.
NoFlows ==
    [suite |-> 1, template |-> 1, fixture |-> 1,
     files |-> [n \in 1..MaxFlows |-> None],
     meta |-> None,
     ops |-> 0,
     last |-> [op |-> "none", hit |-> FALSE, num_flows |-> 0]]

\* ------------------------------------------------------------- target_vllm
\* Module state at import: _step_sequence = [], _flows_cache = {}.
NoServed == [_step_sequence |-> <<>>, _flows_cache |-> {}, runs |-> <<>>]

\* Variant: the flow index taken from the number of calls received.
_get_current_flow_idx_by_position(seq) == Len(seq) \div 3

\* _get_current_flow_idx: the number of "verifier" entries of _step_sequence
\* (both branches on the last entry return it).
RECURSIVE _get_current_flow_idx(_)
_get_current_flow_idx(seq) ==
    IF seq = <<>> THEN 0
    ELSE _get_current_flow_idx(SubSeq(seq, 1, Len(seq) - 1))
             + (IF seq[Len(seq)] = "verifier" THEN 1 ELSE 0)

\* _load_flow(flow_idx): the cached flow, else the file _expanded_NN.json,
\* which is then cached; FileNotFoundError when the file does not exist.
_load_flow(flow_idx, _flows_cache) ==
    IF flow_idx \in _flows_cache THEN [raised |-> FALSE, cache |-> _flows_cache]
    ELSE IF flow_idx <= NumFlowFiles
    THEN [raised |-> FALSE, cache |-> _flows_cache \cup {flow_idx}]
    ELSE [raised |-> TRUE, cache |-> _flows_cache]

\* The step names LE-0 can pass to run; the flows define the three of STEP_NAMES.
StepNamesPassed == {STEP_NAMES[k] : k \in 1..NumSteps} \cup {"reviewer"}

ToolsIdle ==
    /\ flows = NoFlows
    /\ served = NoServed

\* ------------------------------------------------------------------- state
config == <<entry, backend, numTasks, catalog>>
locals == <<i, step, prior, task, totals, task_avoided, total_avoided, all_tasks>>
results == <<baselineR, treatmentR, le0R, report>>
ghosts == <<prompt, reports, trace>>
repo == <<root, _file_cache, resolved, loads>>
helpdesk == <<rules, ticket, cache, now>>
tools == <<flows, served>>

\* num_tasks as compare_runner.main and execute_treatment derive it from NUM_TASKS.
CompareNumTasks == Min2(numTasks, NumTasksCap)
Le0NumTasks == Min2(Max2(1, numTasks), NumTasksCap)

\* The texts of the catalog in retrieval order (task, then position).
Flat(cat, n) == [p \in 1..(n * LookupsPerTask) |->
                    cat[((p - 1) \div LookupsPerTask) + 1][((p - 1) % LookupsPerTask) + 1]]

\* Texts are named in the order the catalog first retrieves them: every
\* catalog is one of these up to the names of its texts.
NamedInRetrievalOrder(cat, n) ==
    LET flat == Flat(cat, n)
    IN  \A p \in 1..Len(flat) :
            flat[p] = 1 \/ \E q \in 1..(p - 1) : flat[q] = flat[p] - 1

Catalogs(n) ==
    {cat \in [1..n -> [1..LookupsPerTask -> Texts]] : NamedInRetrievalOrder(cat, n)}

\* A few catalogs of two tasks: all distinct, one text twice in a task, shared across tasks.
SampleCatalogs ==
    { [t \in 1..MaxTasks |-> <<1, 2, 3>>],
      [t \in 1..MaxTasks |-> IF t = 1 THEN <<1, 1, 2>> ELSE <<2, 3, 3>>] }

\* No lookup made, nothing cached, every file in its first version.
RepoIdle ==
    /\ root = [version |-> [f \in FileSet |-> 1], scan |-> Files, readable |-> AllReadable]
    /\ _file_cache = [p \in Procs |-> EmptyCache]
    /\ resolved = <<>>
    /\ loads = NoLoads

\* No helpdesk object constructed.
HelpdeskIdle ==
    /\ rules = <<>>
    /\ ticket = None
    /\ cache = <<>>
    /\ now = 0

BenchIdle ==
    /\ pc = "idle"
    /\ runs = 0
    /\ tracker = SnippetTracker
    /\ i = 1
    /\ step = 1
    /\ prior = <<>>
    /\ task = NewTask
    /\ totals = NewTotals
    /\ task_avoided = 0
    /\ total_avoided = 0
    /\ all_tasks = <<>>
    /\ baselineR = None
    /\ treatmentR = None
    /\ le0R = None
    /\ report = None
    /\ prompt = <<>>
    /\ reports = NoReports
    /\ trace = <<>>
    /\ history = <<>>
    /\ calls = <<>>
    /\ failed = None

InitIdle ==
    /\ BenchIdle
    /\ RepoIdle
    /\ HelpdeskIdle
    /\ ToolsIdle

\* The two programs of the repository, every catalog, a backend that reports
\* neither reuse nor energy.
Init ==
    /\ entry \in {"compare_runner", "le0_runner"}
    /\ backend = {PlainResponse}
    /\ numTasks \in 0..MaxTasks
    /\ catalog \in Catalogs(Max2(1, numTasks))
    /\ InitIdle

StartAllowed(kind) ==
    /\ pc = "idle"
    /\ CASE entry = "compare_runner" ->
                \/ kind = "baseline" /\ baselineR = None
                \/ kind = "treatment" /\ baselineR # None /\ treatmentR = None
         [] entry = "le0_runner" -> kind = "le0" /\ le0R = None
         [] entry = "caller" -> runs < MaxRuns
         [] OTHER -> FALSE

\* Where control is after a run returns.
AfterReturn == IF entry = "le0_runner" THEN "done" ELSE "idle"

Output(mode, resp) == [by |-> <<mode, i, step>>, len |-> resp.out_len]

Decisions(tr) == [k \in 1..Len(tr) |-> tr[k].is_new]

\* ------------------------------------------------------------ run_baseline
StartBaseline ==
    /\ StartAllowed("baseline")
    /\ pc' = "baseline"
    /\ runs' = runs + 1
    /\ totals' = NewTotals
    /\ all_tasks' = <<>>
    /\ i' = 1
    /\ step' = 1
    /\ prompt' = <<>>
    /\ reports' = NoReports
    /\ trace' = <<>>
    /\ UNCHANGED <<tools, failed, config, repo, helpdesk, tracker, prior, task, task_avoided, total_avoided,
                   results, history, calls>>

\* One iteration of the step loop, with the task set-up before its first
\* step and the task roll-up after its last.
BaselineStep(resp) ==
    /\ pc = "baseline"
    /\ i <= CompareNumTasks
    /\ LET lookups == execute_lookups(i)
           task0 == IF step = 1 THEN NewTask ELSE task
           prior0 == IF step = 1 THEN <<>> ELSE prior
           last == step = NumSteps
       IN  \E built \in {build_step_prompt_baseline(i, STEP_NAMES[step], lookups, prior0)} :
           \E task1 \in {TaskAfterStep(task0, built, resp.metrics)} :
           \E totals1 \in {TotalsAfterStep(totals, resp.metrics)} :
           /\ prior' = Append(prior0, Output("baseline", resp))
           /\ task' = task1
           /\ totals' = IF last THEN TotalsAfterTask(totals1, task1) ELSE totals1
           /\ all_tasks' = IF last
                           THEN Append(all_tasks,
                                    [task |-> i, client_tokens |-> task1.client,
                                     output_tokens |-> task1.output,
                                     latency_ms |-> task1.latency,
                                     prefill_ms |-> task1.prefill_ms,
                                     decode_ms |-> task1.decode_ms])
                           ELSE all_tasks
           /\ i' = IF last THEN i + 1 ELSE i
           /\ step' = IF last THEN 1 ELSE step + 1
           /\ trace' = Append(trace,
                          [mode |-> "baseline", task |-> i, step |-> step,
                           seen_before |-> {},
                           entries |-> SnippetEntries(built),
                           is_new |-> <<>>, step_avoided |-> 0])
           /\ prompt' = built
           /\ reports' = ReportsAfterStep(reports, resp.metrics.reused_tokens)
    /\ UNCHANGED <<tools, failed, config, repo, helpdesk, pc, runs, tracker, task_avoided, total_avoided,
                   results, history, calls>>

BaselineResult ==
    LET n == CompareNumTasks
    IN  [total_client_tokens |-> totals.client_tokens,
         total_snippet_tokens |->
             SumSeq([t \in 1..n |->
                        SumSeq([k \in 1..Len(execute_lookups(t)) |->
                                   execute_lookups(t)[k].token_estimate])]) * NumSteps,
         total_output_tokens |-> totals.output_tokens,
         total_latency_ms |-> totals.latency_ms,
         total_prefill_ms |-> totals.prefill_ms,
         total_decode_ms |-> totals.decode_ms,
         total_prefill_tokens_computed |-> totals.prefill_tokens_computed,
         total_reused_tokens |-> totals.reused_tokens,
         total_energy_j |-> totals.energy_j,
         avg_client_tokens |-> Frac(totals.client_tokens, n),
         avg_output_tokens |-> Frac(totals.output_tokens, n),
         avg_latency_ms |-> Frac(totals.latency_ms, n),
         prefill_pct |-> PctOf(totals.prefill_ms, totals.latency_ms),
         tasks |-> all_tasks]

\* The return statement: the averages divide by num_tasks (ZeroDivisionError at 0).
BaselineReturn ==
    /\ pc = "baseline"
    /\ i > CompareNumTasks
    /\ IF CompareNumTasks = 0
       THEN /\ pc' = "raised"
            /\ UNCHANGED <<baselineR, history>>
       ELSE /\ pc' = AfterReturn
            /\ baselineR' = Some(BaselineResult)
            /\ history' = Append(history, [kind |-> "baseline", decisions |-> <<>>])
    /\ UNCHANGED <<tools, failed, config, repo, helpdesk, runs, tracker, locals, treatmentR, le0R, report, ghosts, calls>>

\* ----------------------------------------------------------- run_treatment
\* Variant: the run keeps the tracker the process already holds.
StartTreatment_shared_tracker ==
    /\ StartAllowed("treatment")
    /\ pc' = "treatment"
    /\ runs' = runs + 1
    /\ totals' = NewTotals
    /\ total_avoided' = 0
    /\ all_tasks' = <<>>
    /\ i' = 1
    /\ step' = 1
    /\ prompt' = <<>>
    /\ reports' = NoReports
    /\ trace' = <<>>
    /\ UNCHANGED <<tools, failed, config, repo, helpdesk, tracker, prior, task, task_avoided, results, history, calls>>

StartTreatment ==
    /\ StartAllowed("treatment")
    /\ pc' = "treatment"
    /\ runs' = runs + 1
    /\ tracker' = SnippetTracker
    /\ totals' = NewTotals
    /\ total_avoided' = 0
    /\ all_tasks' = <<>>
    /\ i' = 1
    /\ step' = 1
    /\ prompt' = <<>>
    /\ reports' = NoReports
    /\ trace' = <<>>
    /\ UNCHANGED <<tools, failed, config, repo, helpdesk, prior, task, task_avoided, results, history, calls>>

\* step_avoided, computed from has_seen before the prompt is built.
StepAvoided(lookups, tr) == SumEstimates(lookups, SeenFlags(lookups, tr))

\* len(lookups) - sum(1 for l in lookups if l["snippet_id"] in tracker.seen_ids)
NewSnippetsReported(lookups, tr) ==
    Len(lookups) - CountLookups(lookups, SeenFlags(lookups, tr))

TreatmentStep(resp) ==
    /\ pc = "treatment"
    /\ i <= CompareNumTasks
    /\ LET lookups == execute_lookups(i)
           task0 == IF step = 1 THEN NewTask ELSE task
           prior0 == IF step = 1 THEN <<>> ELSE prior
           avoided0 == IF step = 1 THEN 0 ELSE task_avoided
           last == step = NumSteps
       IN  \E step_avoided \in {StepAvoided(lookups, tracker)} :
           \E built \in {build_step_prompt_treatment(i, STEP_NAMES[step], lookups,
                                                      prior0, tracker)} :
           \E task1 \in {TaskAfterStep(task0, built.prompt, resp.metrics)} :
           \E totals1 \in {TotalsAfterStep(totals, resp.metrics)} :
           \E avoided1 \in {avoided0 + step_avoided} :
           /\ tracker' = built.tracker
           /\ prior' = Append(prior0, Output("treatment", resp))
           /\ task' = task1
           /\ task_avoided' = avoided1
           /\ totals' = IF last THEN TotalsAfterTask(totals1, task1) ELSE totals1
           /\ total_avoided' = IF last THEN total_avoided + avoided1 ELSE total_avoided
           /\ all_tasks' = IF last
                           THEN Append(all_tasks,
                                    [task |-> i, client_tokens |-> task1.client,
                                     output_tokens |-> task1.output,
                                     new_snippets |-> NewSnippetsReported(lookups, built.tracker),
                                     prefill_ms |-> task1.prefill_ms,
                                     decode_ms |-> task1.decode_ms,
                                     avoided_tokens |-> avoided1])
                           ELSE all_tasks
           /\ i' = IF last THEN i + 1 ELSE i
           /\ step' = IF last THEN 1 ELSE step + 1
           /\ trace' = Append(trace,
                          [mode |-> "treatment", task |-> i, step |-> step,
                           seen_before |-> tracker.seen_ids,
                           entries |-> SnippetEntries(built.prompt),
                           is_new |-> built.is_new,
                           step_avoided |-> step_avoided])
           /\ prompt' = built.prompt
           /\ reports' = ReportsAfterStep(reports, resp.metrics.reused_tokens)
    /\ UNCHANGED <<tools, failed, config, repo, helpdesk, pc, runs, results, history, calls>>

\* get_reuse_rate() * 100
ReuseRatePct(tr) == Frac(get_reuse_rate(tr)[1] * 100, get_reuse_rate(tr)[2])

TreatmentResult ==
    LET n == CompareNumTasks
    IN  [total_client_tokens |-> totals.client_tokens,
         total_output_tokens |-> totals.output_tokens,
         total_latency_ms |-> totals.latency_ms,
         total_prefill_ms |-> totals.prefill_ms,
         total_decode_ms |-> totals.decode_ms,
         total_prefill_tokens_computed |-> totals.prefill_tokens_computed,
         total_reused_tokens |-> totals.reused_tokens,
         total_energy_j |-> totals.energy_j,
         total_avoided_tokens |-> total_avoided,
         avg_client_tokens |-> Frac(totals.client_tokens, n),
         avg_output_tokens |-> Frac(totals.output_tokens, n),
         avg_latency_ms |-> Frac(totals.latency_ms, n),
         prefill_pct |-> PctOf(totals.prefill_ms, totals.latency_ms),
         unique_snippets |-> Cardinality(tracker.seen_ids),
         reuse_rate |-> ReuseRatePct(tracker),
         tasks |-> all_tasks]

TreatmentReturn ==
    /\ pc = "treatment"
    /\ i > CompareNumTasks
    /\ IF CompareNumTasks = 0
       THEN /\ pc' = "raised"
            /\ UNCHANGED <<treatmentR, history>>
       ELSE /\ pc' = AfterReturn
            /\ treatmentR' = Some(TreatmentResult)
            /\ history' = Append(history,
                              [kind |-> "treatment", decisions |-> Decisions(trace)])
    /\ UNCHANGED <<tools, failed, config, repo, helpdesk, runs, tracker, locals, baselineR, le0R, report, ghosts, calls>>

\* -------------------------------------------- le0_runner.execute_treatment
StartLe0 ==
    /\ StartAllowed("le0")
    /\ pc' = "le0"
    /\ runs' = runs + 1
    /\ tracker' = SnippetTracker
    /\ all_tasks' = <<>>
    /\ i' = 1
    /\ step' = 1
    /\ prompt' = <<>>
    /\ reports' = NoReports
    /\ trace' = <<>>
    /\ UNCHANGED <<tools, failed, config, repo, helpdesk, prior, task, totals, task_avoided, total_avoided,
                   results, history, calls>>

\* task_metrics as execute_task sets it up before the step loop.
NewTaskMetrics(task_idx, lookups, tr) ==
    [task_idx |-> task_idx,
     steps |-> <<>>,
     total_client_sent_tokens |-> 0,
     total_snippet_tokens |-> 0,
     new_snippets |-> Len(lookups) - CountLookups(lookups, SeenFlags(lookups, tr)),
     reused_snippets |-> CountLookups(lookups, SeenFlags(lookups, tr)),
     total_output_tokens |-> 0,
     total_latency_ms |-> 0,
     snippet_ids |-> [k \in 1..Len(lookups) |-> lookups[k].snippet_id]]

\* new_snippet_tokens, computed from has_seen after the prompt was built.
NewSnippetTokens(lookups, tr) ==
    SumEstimates(lookups, [k \in 1..Len(lookups) |-> ~SeenFlags(lookups, tr)[k]])

\* One iteration of execute_task's step loop; the first also sets the task
\* up, the last also returns task_metrics to execute_treatment.
Le0Step(resp) ==
    /\ pc = "le0"
    /\ i <= Le0NumTasks
    /\ LET lookups == execute_lookups(i)
           tm0 == IF step = 1 THEN NewTaskMetrics(i, lookups, tracker) ELSE task
           prior0 == IF step = 1 THEN <<>> ELSE prior
           last == step = NumSteps
       IN  \E built \in {build_step_prompt_treatment(i, STEP_NAMES[step], lookups,
                                                      prior0, tracker)} :
           \E client_sent_tokens \in {count_tokens(PromptBytes(built.prompt))} :
           \E new_snippet_tokens \in {NewSnippetTokens(lookups, built.tracker)} :
           LET
           step_metrics == [step_name |-> STEP_NAMES[step],
                            client_sent_tokens |-> client_sent_tokens,
                            new_snippet_tokens |-> new_snippet_tokens,
                            output_tokens |-> Get(resp.metrics.output_tokens, 0),
                            latency_ms |-> Get(resp.metrics.latency_ms, 0)]
           tm1 == [tm0 EXCEPT
                     !.steps = Append(@, step_metrics),
                     !.total_client_sent_tokens = @ + client_sent_tokens,
                     !.total_snippet_tokens = @ + new_snippet_tokens,
                     !.total_output_tokens = @ + Get(resp.metrics.output_tokens, 0),
                     !.total_latency_ms = @ + Get(resp.metrics.latency_ms, 0)]
           IN
           /\ tracker' = built.tracker
           /\ prior' = Append(prior0, Output("le0", resp))
           /\ task' = tm1
           /\ all_tasks' = IF last THEN Append(all_tasks, tm1) ELSE all_tasks
           /\ i' = IF last THEN i + 1 ELSE i
           /\ step' = IF last THEN 1 ELSE step + 1
           /\ trace' = Append(trace,
                          [mode |-> "le0", task |-> i, step |-> step,
                           seen_before |-> tracker.seen_ids,
                           entries |-> SnippetEntries(built.prompt),
                           is_new |-> built.is_new,
                           step_avoided |-> 0])
           /\ prompt' = built.prompt
           /\ reports' = ReportsAfterStep(reports, resp.metrics.reused_tokens)
    /\ UNCHANGED <<tools, failed, config, repo, helpdesk, pc, runs, totals, task_avoided, total_avoided,
                   results, history, calls>>

Le0Result ==
    [mode |-> "treatment",
     num_tasks |-> Le0NumTasks,
     total_steps |-> Le0NumTasks * NumSteps,
     unique_snippets |-> Cardinality(tracker.seen_ids),
     snippet_reuse_rate |-> ReuseRatePct(tracker),
     total_client_sent_tokens |->
         SumSeq([t \in 1..Len(all_tasks) |-> all_tasks[t].total_client_sent_tokens]),
     total_snippet_tokens_sent |->
         SumSeq([t \in 1..Len(all_tasks) |-> all_tasks[t].total_snippet_tokens]),
     total_output_tokens |->
         SumSeq([t \in 1..Len(all_tasks) |-> all_tasks[t].total_output_tokens]),
     total_latency_ms |->
         SumSeq([t \in 1..Len(all_tasks) |-> all_tasks[t].total_latency_ms]),
     tasks |-> all_tasks]

Le0Return ==
    /\ pc = "le0"
    /\ i > Le0NumTasks
    /\ pc' = AfterReturn
    /\ le0R' = Some(Le0Result)
    /\ history' = Append(history, [kind |-> "le0", decisions |-> Decisions(trace)])
    /\ UNCHANGED <<tools, failed, config, repo, helpdesk, runs, tracker, locals, baselineR, treatmentR, report, ghosts, calls>>

\* -------------------------------------------------------- print_comparison
\* Variant: delta_indicator's pct without the zero test.
DeltaPct_unguarded(old, new) == Frac((new - old) * 100, old)

\* delta_indicator's pct: (diff / old * 100) if old != 0 else 0
DeltaPct(old, new) == IF old # 0 THEN Frac((new - old) * 100, old) ELSE Frac(0, 1)

\* ((b - t) / b * 100) if b > 0 else 0
ReductionPct(b, t) == IF b > 0 THEN Frac((b - t) * 100, b) ELSE Frac(0, 1)

\* abs(x - y) < tol on fractions with positive denominators.
AbsDiffBelow(x, y, tol) == Abs(x[1] * y[2] - y[1] * x[2]) < tol * x[2] * y[2]

\* Variant: the tolerance band is one point wider.
Diagnose_inclusive_tolerance(treatment_reused, avoided_tokens, token_reduction_pct, prefill_reduction_pct) ==
    IF treatment_reused # None /\ Get(treatment_reused, 0) > 0
    THEN "compute-reuse"
    ELSE IF avoided_tokens > 0
            /\ ~AbsDiffBelow(prefill_reduction_pct, token_reduction_pct, ToleranceBand)
            /\ ~AbsDiffBelow(prefill_reduction_pct, token_reduction_pct, ToleranceBand + 1)
    THEN "mixed-signal"
    ELSE IF avoided_tokens > 0 THEN "transmission-shrink"
    ELSE "no-reuse-detected"

\* Variant: the avoided-token branches are tested before the reuse branch.
Diagnose_avoided_first(treatment_reused, avoided_tokens, token_reduction_pct, prefill_reduction_pct) ==
    IF avoided_tokens > 0
       /\ AbsDiffBelow(prefill_reduction_pct, token_reduction_pct, ToleranceBand)
    THEN "transmission-shrink"
    ELSE IF avoided_tokens > 0 THEN "mixed-signal"
    ELSE IF treatment_reused # None /\ Get(treatment_reused, 0) > 0 THEN "compute-reuse"
    ELSE "no-reuse-detected"

\* The if/elif chain that interprets the results.
Diagnose(treatment_reused, avoided_tokens, token_reduction_pct, prefill_reduction_pct) ==
    IF treatment_reused # None /\ Get(treatment_reused, 0) > 0
    THEN "compute-reuse"
    ELSE IF avoided_tokens > 0
            /\ AbsDiffBelow(prefill_reduction_pct, token_reduction_pct, ToleranceBand)
    THEN "transmission-shrink"
    ELSE IF avoided_tokens > 0 THEN "mixed-signal"
    ELSE "no-reuse-detected"

print_comparison(baseline, treatment, num_tasks) ==
    LET b_energy == baseline.total_energy_j
        t_energy == treatment.total_energy_j
        token_reduction_pct ==
            ReductionPct(baseline.total_client_tokens, treatment.total_client_tokens)
        prefill_reduction_pct ==
            ReductionPct(baseline.total_prefill_ms, treatment.total_prefill_ms)
    IN  [diagnostic |-> Diagnose(treatment.total_reused_tokens,
                                 treatment.total_avoided_tokens,
                                 token_reduction_pct, prefill_reduction_pct),
         num_tasks |-> num_tasks,
         token_delta_pct |->
             DeltaPct(baseline.total_client_tokens, treatment.total_client_tokens),
         latency_delta_pct |->
             DeltaPct(baseline.total_latency_ms, treatment.total_latency_ms),
         prefill_delta_pct |->
             DeltaPct(baseline.total_prefill_ms, treatment.total_prefill_ms),
         decode_delta_pct |->
             DeltaPct(baseline.total_decode_ms, treatment.total_decode_ms),
         energy_delta_pct |-> DeltaPct(b_energy, t_energy),
         token_reduction |-> baseline.total_client_tokens - treatment.total_client_tokens,
         token_reduction_pct |-> token_reduction_pct,
         prefill_reduction_ms |-> baseline.total_prefill_ms - treatment.total_prefill_ms,
         prefill_reduction_pct |-> prefill_reduction_pct,
         decode_reduction_ms |-> baseline.total_decode_ms - treatment.total_decode_ms,
         energy_savings |-> b_energy - t_energy,
         energy_savings_pct |-> ReductionPct(b_energy, t_energy)]

PrintComparison ==
    /\ pc = "idle"
    /\ entry \in {"compare_runner", "caller"}
    /\ baselineR # None
    /\ treatmentR # None
    /\ report' = Some(print_comparison(baselineR[1], treatmentR[1], CompareNumTasks))
    /\ pc' = IF entry = "compare_runner" THEN "done" ELSE "idle"
    /\ UNCHANGED <<tools, failed, config, repo, helpdesk, runs, tracker, locals, baselineR, treatmentR, le0R,
                   ghosts, history, calls>>

Next ==
    \/ StartBaseline
    \/ \E resp \in backend : BaselineStep(resp)
    \/ BaselineReturn
    \/ StartTreatment
    \/ \E resp \in backend : TreatmentStep(resp)
    \/ TreatmentReturn
    \/ StartLe0
    \/ \E resp \in backend : Le0Step(resp)
    \/ Le0Return
    \/ PrintComparison

Spec == Init /\ [][Next]_vars

\* Any caller of the three run functions, in any order, within one process.
InitRuns ==
    /\ entry = "caller"
    /\ backend = {PlainResponse}
    /\ numTasks \in 1..MaxTasks
    /\ catalog \in SampleCatalogs
    /\ InitIdle

SpecRuns == InitRuns /\ [][Next]_vars

\* The two programs against a backend free to report or withhold every metric.
InitMetrics ==
    /\ entry \in {"compare_runner", "le0_runner"}
    /\ backend = Responses
    /\ numTasks \in 0..MetricTasks
    /\ catalog \in SampleCatalogs
    /\ InitIdle

SpecMetrics == InitMetrics /\ [][Next]_vars

\* ------------------------------------------------- a backend call that raises
\* The number of tasks of the running loop.
RunTasks == IF pc = "le0" THEN Le0NumTasks ELSE CompareNumTasks

\* What the running mode's builder does before run_prompt is called.
PromptBeforeCall ==
    LET lookups == execute_lookups(i)
        prior0 == IF step = 1 THEN <<>> ELSE prior
    IN  IF pc = "baseline"
        THEN [prompt |-> build_step_prompt_baseline(i, STEP_NAMES[step], lookups, prior0),
              tracker |-> tracker]
        ELSE LET built == build_step_prompt_treatment(i, STEP_NAMES[step], lookups,
                                                      prior0, tracker)
             IN  [prompt |-> built.prompt, tracker |-> built.tracker]

\* Variant: the exception is swallowed and the loop goes on.
BackendRaises_retried ==
    /\ pc \in {"baseline", "treatment", "le0"}
    /\ i <= RunTasks
    /\ failed = None
    /\ failed' = Some(<<pc, i, step>>)
    /\ UNCHANGED <<tools, config, repo, helpdesk, pc, runs, tracker, locals, results, ghosts, history, calls>>

\* run_prompt raises at (task i, step): nothing in the runners or in main
\* catches it, so the frames of the run unwind and the process ends.
BackendRaises ==
    /\ pc \in {"baseline", "treatment", "le0"}
    /\ i <= RunTasks
    /\ \E built \in {PromptBeforeCall} :
           /\ tracker' = built.tracker
           /\ prompt' = built.prompt
    /\ failed' = Some(<<pc, i, step>>)
    /\ pc' = "raised"
    /\ UNCHANGED <<tools, config, repo, helpdesk, runs, locals, results, reports, trace, history, calls>>

\* The two programs against a backend whose call may raise at any step.
InitFailing ==
    /\ entry \in {"compare_runner", "le0_runner"}
    /\ backend = {PlainResponse}
    /\ numTasks \in 1..MaxTasks
    /\ catalog \in SampleCatalogs
    /\ InitIdle

NextFailing ==
    \/ Next
    \/ BackendRaises

SpecFailing == InitFailing /\ [][NextFailing]_vars

\* ------------------------------------ print_comparison on any pair of results
\* The fields print_comparison reads of a result dict.
ResultInput(client, latency, prefill, decode, energy, reused, avoided) ==
    [total_client_tokens |-> client, total_latency_ms |-> latency,
     total_prefill_ms |-> prefill, total_decode_ms |-> decode,
     total_energy_j |-> energy, total_reused_tokens |-> reused,
     total_avoided_tokens |-> avoided]

\* Baseline results with every whole-run total zero or not.
BaselineInputs ==
    {ResultInput(client, rest[1], prefill, rest[2], rest[3], None, 0) :
        client \in {0, 100}, prefill \in {0, 100}, rest \in {<<0, 0, 0>>, <<40, 8, 6>>}}

\* Treatment results on either side of the tolerance band, with the reuse
\* total unknown, zero or positive and with and without avoided tokens.
TreatmentInputs ==
    {ResultInput(client, 30, prefill, 8, 5, reused, avoided) :
        client \in {50, 100}, prefill \in {50, 60, 95},
        reused \in {None, Some(0), Some(3)}, avoided \in {0, 7}}

InitReport ==
    /\ entry = "caller"
    /\ backend = {PlainResponse}
    /\ numTasks \in 0..1
    /\ catalog = [t \in 1..1 |-> [k \in 1..LookupsPerTask |-> 1]]
    /\ pc = "idle"
    /\ runs = 0
    /\ tracker = SnippetTracker
    /\ i = 1
    /\ step = 1
    /\ prior = <<>>
    /\ task = NewTask
    /\ totals = NewTotals
    /\ task_avoided = 0
    /\ total_avoided = 0
    /\ all_tasks = <<>>
    /\ baselineR \in {Some(b) : b \in BaselineInputs}
    /\ treatmentR \in {Some(t) : t \in TreatmentInputs}
    /\ le0R = None
    /\ report = None
    /\ prompt = <<>>
    /\ reports = NoReports
    /\ trace = <<>>
    /\ history = <<>>
    /\ calls = <<>>
    /\ failed = None
    /\ RepoIdle
    /\ HelpdeskIdle
    /\ ToolsIdle

NextReport == PrintComparison

SpecReport == InitReport /\ [][NextReport]_vars

\* --------------------------------------------- the tracker called directly
Window(cs, c) == IF Len(cs) < 2 THEN Append(cs, c) ELSE <<cs[2], c>>

OtherText(t) == (t % NumTexts) + 1

\* tracker.record(snippet_id, text): the id of the text, or of another text.
Record(t, text) ==
    /\ entry = "tracker_api"
    /\ tracker.reuse_hits < MaxReuse
    /\ LET r == record(tracker, _get_snippet_id(t), text)
       IN  /\ tracker' = r.tracker
           /\ calls' = Window(calls, [op |-> "record", id |-> _get_snippet_id(t),
                                      text |-> text, ret |-> r.ret, before |-> tracker])
    /\ UNCHANGED <<tools, failed, config, repo, helpdesk, pc, runs, locals, results, ghosts, history>>

\* Variant: asking about an id marks it seen.
HasSeen_marks_seen(t) ==
    /\ entry = "tracker_api"
    /\ tracker' = [tracker EXCEPT !.seen_ids = @ \cup {_get_snippet_id(t)}]
    /\ calls' = Window(calls, [op |-> "has_seen", id |-> _get_snippet_id(t),
                               text |-> t, ret |-> has_seen(tracker, _get_snippet_id(t)),
                               before |-> tracker])
    /\ UNCHANGED <<tools, failed, config, repo, helpdesk, pc, runs, locals, results, ghosts, history>>

\* tracker.has_seen(snippet_id)
HasSeen(t) ==
    /\ entry = "tracker_api"
    /\ calls' = Window(calls, [op |-> "has_seen", id |-> _get_snippet_id(t),
                               text |-> t, ret |-> has_seen(tracker, _get_snippet_id(t)),
                               before |-> tracker])
    /\ UNCHANGED <<tools, failed, config, repo, helpdesk, pc, runs, tracker, locals, results, ghosts, history>>

InitTracker ==
    /\ entry = "tracker_api"
    /\ backend = {PlainResponse}
    /\ numTasks = 0
    /\ catalog = [t \in 1..1 |-> [k \in 1..LookupsPerTask |-> 1]]
    /\ InitIdle

NextTracker ==
    \/ \E t \in Texts : \E text \in {t, OtherText(t)} : Record(t, text)
    \/ \E t \in Texts : HasSeen(t)

SpecTracker == InitTracker /\ [][NextTracker]_vars

\* ------------------------------------------- the prompt builders called directly
\* Prior outputs a caller can pass: none, a short one, one beyond the limit.
PriorChoices ==
    {<<>>,
     <<[by |-> <<"caller", 1, 1>>, len |-> 12]>>,
     <<[by |-> <<"caller", 1, 1>>, len |-> PriorOutputLimit + 1]>>}

\* One call of build_step_prompt_baseline or build_step_prompt_treatment on
\* the process's tracker.
Assemble(mode, task_idx, step_idx, prior_outputs) ==
    /\ entry = "assembler"
    /\ tracker.reuse_hits < MaxReuse
    /\ LET lookups == execute_lookups(task_idx)
       IN  \E built \in
               {IF mode = "baseline"
                THEN [prompt |-> build_step_prompt_baseline(task_idx, STEP_NAMES[step_idx],
                                                            lookups, prior_outputs),
                      tracker |-> tracker,
                      is_new |-> <<>>]
                ELSE build_step_prompt_treatment(task_idx, STEP_NAMES[step_idx], lookups,
                                                 prior_outputs, tracker)} :
               /\ tracker' = built.tracker
               /\ prompt' = built.prompt
               /\ calls' = Window(calls,
                               [op |-> "assemble", mode |-> mode, task_idx |-> task_idx,
                                step_name |-> STEP_NAMES[step_idx], lookups |-> lookups,
                                prior_outputs |-> prior_outputs, before |-> tracker,
                                prompt |-> built.prompt, after |-> built.tracker,
                                is_new |-> built.is_new])
    /\ UNCHANGED <<tools, config, repo, helpdesk, pc, runs, locals, results, reports, trace,
                   history, failed>>

\* tracker = SnippetTracker(): the caller starts a new session.
NewTracker ==
    /\ entry = "assembler"
    /\ tracker # SnippetTracker
    /\ tracker' = SnippetTracker
    /\ UNCHANGED <<tools, config, repo, helpdesk, pc, runs, locals, results, ghosts, history,
                   calls, failed>>

InitAssembly ==
    /\ entry = "assembler"
    /\ backend = {PlainResponse}
    /\ numTasks = MaxTasks
    /\ catalog \in SampleCatalogs
    /\ InitIdle

NextAssembly ==
    \/ \E mode \in {"baseline", "treatment"} : \E task_idx \in 1..MaxTasks :
           \E step_idx \in {1, NumSteps} : \E prior_outputs \in PriorChoices :
               Assemble(mode, task_idx, step_idx, prior_outputs)
    \/ NewTracker

SpecAssembly == InitAssembly /\ [][NextAssembly]_vars

\* The benchmark programs are not running in this process.
NoBenchmark ==
    /\ BenchIdle
    /\ backend = {PlainResponse}
    /\ numTasks = 0
    /\ catalog = [t \in 1..1 |-> [k \in 1..LookupsPerTask |-> 1]]

bench_but_calls == <<backend, numTasks, catalog, pc, runs, tracker, locals, results,
                     ghosts, history, failed>>
bench == <<bench_but_calls, calls>>

\* ------------------------------------------------- helpdesk_ai: rule engine
Priorities == {"critical", "high", "medium", "low"}

\* A Rule, with what its condition does on the ticket at hand: "matches",
\* "differs" or "raises".
RuleIds == {"r1", "r2"}
Rules == [rule_id : RuleIds, priority : Priorities,
          condition : {"matches", "differs", "raises"}]

\* Rule.matches(ticket).matched: an exception of the condition is caught.
Matched(rule) == rule.condition = "matches"

\* RuleEngine.get_matching_rules: for each matching rule, the first rule of
\* the list that carries its id.
get_matching_rules(rs) ==
    LET matched == SelectSeq(rs, Matched)
        is_first(k, id) == rs[k].rule_id = id /\ \A j \in 1..(k - 1) : rs[j].rule_id # id
        first_with(id) == rs[CHOOSE k \in 1..Len(rs) : is_first(k, id)]
    IN  [k \in 1..Len(matched) |-> first_with(matched[k].rule_id)]

\* priority_order of get_highest_priority_match.
priority_order(p) ==
    CASE p = "critical" -> 1
      [] p = "high" -> 2
      [] p = "medium" -> 3
      [] p = "low" -> 4
      [] OTHER -> 99

\* list.sort(key=...): stable, ascending.
RECURSIVE InsertByKey(_, _)
InsertByKey(sorted, r) ==
    IF sorted = <<>> THEN <<r>>
    ELSE IF priority_order(sorted[Len(sorted)].priority) <= priority_order(r.priority)
    THEN Append(sorted, r)
    ELSE Append(InsertByKey(SubSeq(sorted, 1, Len(sorted) - 1), r), sorted[Len(sorted)])

RECURSIVE SortByPriorityOrder(_)
SortByPriorityOrder(rs) ==
    IF rs = <<>> THEN <<>>
    ELSE InsertByKey(SortByPriorityOrder(SubSeq(rs, 1, Len(rs) - 1)), rs[Len(rs)])

\* RuleEngine.get_highest_priority_match: matches[-1] of the sorted matches.
get_highest_priority_match(rs) ==
    LET matches == SortByPriorityOrder(get_matching_rules(rs))
    IN  IF matches = <<>> THEN None ELSE Some(matches[Len(matches)])

\* engine.add_rule(rule)
add_rule(rule) ==
    /\ entry = "rule_engine"
    /\ Len(rules) < MaxRules
    /\ rules' = Append(rules, rule)
    /\ UNCHANGED <<tools, entry, bench, repo, ticket, cache, now>>

\* engine.remove_rule(rule_id)
remove_rule(rule_id) ==
    /\ entry = "rule_engine"
    /\ rules' = SelectSeq(rules, LAMBDA r : r.rule_id # rule_id)
    /\ UNCHANGED <<tools, entry, bench, repo, ticket, cache, now>>

InitRules ==
    /\ entry = "rule_engine"
    /\ NoBenchmark
    /\ ToolsIdle
    /\ RepoIdle
    /\ HelpdeskIdle

NextRules ==
    \/ \E rule \in Rules : add_rule(rule)
    \/ \E rule_id \in RuleIds : remove_rule(rule_id)

SpecRules == InitRules /\ [][NextRules]_vars

\* ------------------------------------------ helpdesk_ai: ticket and escalation
Statuses == {"new", "triaged", "assigned", "in_progress", "resolved", "closed", "escalated"}

\* A Ticket: the fields update and escalate touch; a metadata key that is
\* absent is None.
Ticket(status, priority, at) ==
    [status |-> status, priority |-> priority, updated_at |-> at,
     metadata |-> [escalated_at |-> None, escalation_reason |-> None]]

\* Ticket.update(status=value): every attribute the ticket has is set, then
\* updated_at.
update(t, status, at) == [t EXCEPT !.status = status, !.updated_at = at]

\* The reasons a caller passes: None, the empty string, a text.
Reasons == {None, Some(""), Some("sla breach")}

\* Variant: the status of the ticket is not looked at.
escalate_any_status(t, reason, at) ==
    LET raised == CASE t.priority = "low" -> "medium"
                    [] t.priority = "medium" -> "high"
                    [] t.priority = "high" -> "critical"
                    [] OTHER -> t.priority
    IN  [t EXCEPT !.priority = raised,
                  !.status = "escalated",
                  !.metadata.escalated_at = Some(at),
                  !.metadata.escalation_reason =
                      IF reason # None /\ reason[1] # "" THEN reason ELSE @]

\* EscalationService.escalate(ticket, reason) at time `at`.
escalate(t, reason, at) ==
    IF t.status \in {"resolved", "closed"} THEN t
    ELSE LET raised == CASE t.priority = "low" -> "medium"
                         [] t.priority = "medium" -> "high"
                         [] t.priority = "high" -> "critical"
                         [] OTHER -> t.priority
         IN  [t EXCEPT !.priority = raised,
                       !.status = "escalated",
                       !.metadata.escalated_at = Some(at),
                       !.metadata.escalation_reason =
                           IF reason # None /\ reason[1] # "" THEN reason ELSE @]

\* ticket.update(status=status): nothing in update can raise.
Update(status) ==
    /\ entry = "ticket"
    /\ ticket' = Some(update(ticket[1], status, now))
    /\ calls' = <<[op |-> "update", status |-> status, raised |-> FALSE,
                   before |-> ticket[1], at |-> now]>>
    /\ UNCHANGED <<tools, entry, bench_but_calls, repo, rules, cache, now>>

\* service.escalate(ticket, reason)
Escalate(reason) ==
    /\ entry = "ticket"
    /\ ticket' = Some(escalate(ticket[1], reason, now))
    /\ calls' = <<[op |-> "escalate", reason |-> reason, raised |-> FALSE,
                   before |-> ticket[1], at |-> now]>>
    /\ UNCHANGED <<tools, entry, bench_but_calls, repo, rules, cache, now>>

\* A second passes.
TickTicket ==
    /\ entry = "ticket"
    /\ now < MaxTime
    /\ now' = now + 1
    /\ UNCHANGED <<tools, entry, bench, repo, rules, ticket, cache>>

\* A ticket as a caller constructs it: any status and priority.
InitTicket ==
    /\ entry = "ticket"
    /\ NoBenchmark
    /\ ToolsIdle
    /\ RepoIdle
    /\ rules = <<>>
    /\ cache = <<>>
    /\ now = 0
    /\ \E status \in Statuses : \E priority \in Priorities :
           ticket = Some(Ticket(status, priority, 0))

NextTicket ==
    \/ \E status \in Statuses : Update(status)
    \/ \E reason \in Reasons : Escalate(reason)
    \/ TickTicket

SpecTicket == InitTicket /\ [][NextTicket]_vars

\* ---------------------------------------------------- helpdesk_ai: MemoryCache
Keys == {"key1", "permanent"}

\* The ttl arguments of set and the default_ttl arguments of the constructor.
TtlArgs == {None, Some(0), Some(TestTtl)}
DefaultTtls == {None, Some(FixtureDefaultTtl)}

\* MemoryCache(default_ttl): no entry yet.
MemoryCache(default_ttl) == [default_ttl |-> default_ttl, _entries |-> [k \in Keys |-> None]]

\* `a or b` on optional integers: None and 0 are falsy.
Falsy(x) == x = None \/ x[1] = 0
Or(a, b) == IF Falsy(a) THEN b ELSE a

\* CacheEntry(value, ttl) constructed at time `at`; `asked` keeps the ttl
\* argument of the set call that made it.
CacheEntry(value, ttl, asked, at) ==
    [value |-> value, created_at |-> at, ttl |-> ttl,
     expires_at |-> IF Falsy(ttl) THEN None ELSE Some(at + ttl[1]),
     asked |-> asked]

\* CacheEntry.is_expired at time `at`.
is_expired(e, at) == IF e.expires_at = None THEN FALSE ELSE at > e.expires_at[1]

\* cache.set(key, value, ttl)
Set(key, value, ttl) ==
    /\ entry = "cache"
    /\ cache' = [cache EXCEPT !._entries[key] =
                     Some(CacheEntry(value, Or(ttl, cache.default_ttl), ttl, now))]
    /\ calls' = <<[op |-> "set", key |-> key, at |-> now]>>
    /\ UNCHANGED <<tools, entry, bench_but_calls, repo, rules, ticket, now>>

\* cache.get(key): an expired entry is deleted and None is returned.
CacheGet(key) ==
    /\ entry = "cache"
    /\ LET e == cache._entries[key]
           gone == e # None /\ is_expired(e[1], now)
       IN  /\ cache' = IF gone THEN [cache EXCEPT !._entries[key] = None] ELSE cache
           /\ calls' = <<[op |-> "get", key |-> key, at |-> now, found |-> e,
                          ret |-> IF e = None \/ gone THEN None ELSE Some(e[1].value)]>>
    /\ UNCHANGED <<tools, entry, bench_but_calls, repo, rules, ticket, now>>

\* fake_clock.advance(seconds=d)
Advance(d) ==
    /\ entry = "cache"
    /\ now + d <= MaxClock
    /\ now' = now + d
    /\ UNCHANGED <<tools, entry, bench, repo, rules, ticket, cache>>

InitCache ==
    /\ entry = "cache"
    /\ NoBenchmark
    /\ ToolsIdle
    /\ RepoIdle
    /\ rules = <<>>
    /\ ticket = None
    /\ now = 0
    /\ cache \in {MemoryCache(d) : d \in DefaultTtls}

NextCache ==
    \/ \E key \in Keys : \E ttl \in TtlArgs : Set(key, "value", ttl)
    \/ \E key \in Keys : CacheGet(key)
    \/ \E d \in {TestTtl, TestTtl + 1} : Advance(d)

SpecCache == InitCache /\ [][NextCache]_vars

\* ------------------------------------------------- repo_lookup as a process
\* Process p calls repo_lookup(q).
Resolve(p, q) ==
    /\ entry = "repo_tool"
    /\ Len(resolved) < MaxResolved
    /\ \E r \in {repo_lookup(q, root, _file_cache[p])} :
           /\ _file_cache' = [_file_cache EXCEPT ![p] = r.cache]
           /\ resolved' = Append(resolved,
                              [proc |-> p, query |-> q, root |-> root, raised |-> r.raised,
                               result |-> IF r.raised THEN None ELSE Some(r.result)])
    /\ UNCHANGED <<tools, entry, bench, helpdesk, root, loads>>

\* A file under base_dir is written, created or deleted by its owner.
WriteFile(f, v) ==
    /\ entry = "repo_tool"
    /\ root.version[f] # v
    /\ root' = [root EXCEPT !.version[f] = v]
    /\ UNCHANGED <<tools, entry, bench, helpdesk, _file_cache, resolved, loads>>

\* One call of repo_lookup on any content root, with any cache earlier calls
\* of the process can have left.
InitLookup ==
    /\ entry = "repo_tool"
    /\ NoBenchmark
    /\ ToolsIdle
    /\ HelpdeskIdle
    /\ root \in RootStates
    /\ \E fc \in CacheStates : _file_cache = [p \in Procs |-> IF p = 1 THEN fc ELSE EmptyCache]
    /\ resolved = <<>>
    /\ loads = NoLoads

NextLookup == \E q \in Queries : resolved = <<>> /\ Resolve(1, q)

SpecLookup == InitLookup /\ [][NextLookup]_vars

\* Two processes resolving queries while the content root is edited.
RepeatedQueries ==
    {Query("file", "route", WordChars("route"), NoSuffix),
     Query("func", "route", WordChars("route"), NoSuffix),
     Query("search", "route", WordChars("route"), NoSuffix)}

InitResolve ==
    /\ entry = "repo_tool"
    /\ NoBenchmark
    /\ ToolsIdle
    /\ HelpdeskIdle
    /\ root \in {rt \in RootStates : \A f \in FileSet : rt.version[f] = 1 /\ rt.readable[f]}
    /\ _file_cache = [p \in Procs |-> EmptyCache]
    /\ resolved = <<>>
    /\ loads = NoLoads

NextResolve ==
    \/ \E p \in Procs : \E q \in RepeatedQueries : Resolve(p, q)
    \/ \E v \in Versions : WriteFile("router.py", v)

SpecResolve == InitResolve /\ [][NextResolve]_vars

\* ------------------------------------------ _load_file in concurrent sessions
\* Thread t calls _load_file(f).
LoadCall(t, f) ==
    /\ entry = "sessions"
    /\ loads.pc[t] = "idle"
    /\ loads.made[t] < MaxLoads
    /\ loads' = [loads EXCEPT !.pc[t] = "check", !.filepath[t] = f]
    /\ UNCHANGED <<tools, entry, bench, helpdesk, root, _file_cache, resolved>>

\* if filepath not in _file_cache
LoadCheck(t) ==
    /\ entry = "sessions"
    /\ loads.pc[t] = "check"
    /\ loads' = [loads EXCEPT !.pc[t] = IF _file_cache[1][loads.filepath[t]] = None
                                        THEN "read" ELSE "return"]
    /\ UNCHANGED <<tools, entry, bench, helpdesk, root, _file_cache, resolved>>

\* A read that fails while another thread holds the file open.
LoadRead_exclusive(t) ==
    /\ entry = "sessions"
    /\ loads.pc[t] = "read"
    /\ loads' = [loads EXCEPT !.pc[t] = "store",
                              !.content[t] =
                                  IF \E u \in Threads \ {t} :
                                         /\ loads.pc[u] = "store"
                                         /\ loads.filepath[u] = loads.filepath[t]
                                  THEN Blank
                                  ELSE ReadOrBlank(loads.filepath[t], root)]
    /\ UNCHANGED <<tools, entry, bench, helpdesk, root, _file_cache, resolved>>

\* f.read() inside the try (or the except branch's "").
LoadRead(t) ==
    /\ entry = "sessions"
    /\ loads.pc[t] = "read"
    /\ loads' = [loads EXCEPT !.pc[t] = "store",
                              !.content[t] = ReadOrBlank(loads.filepath[t], root)]
    /\ UNCHANGED <<tools, entry, bench, helpdesk, root, _file_cache, resolved>>

\* _file_cache[filepath] = <what was read>
LoadStore(t) ==
    /\ entry = "sessions"
    /\ loads.pc[t] = "store"
    /\ _file_cache' = [_file_cache EXCEPT ![1][loads.filepath[t]] = Some(loads.content[t])]
    /\ loads' = [loads EXCEPT !.pc[t] = "return",
                              !.stores[loads.filepath[t]] = @ + 1]
    /\ UNCHANGED <<tools, entry, bench, helpdesk, root, resolved>>

\* return _file_cache[filepath]
LoadReturn(t) ==
    /\ entry = "sessions"
    /\ loads.pc[t] = "return"
    /\ loads' = [loads EXCEPT !.pc[t] = "idle",
                              !.made[t] = @ + 1,
                              !.returned = Append(@, [thread |-> t,
                                                      filepath |-> loads.filepath[t],
                                                      content |-> _file_cache[1][loads.filepath[t]][1]])]
    /\ UNCHANGED <<tools, entry, bench, helpdesk, root, _file_cache, resolved>>

\* Two sessions of one process, on any fixed content root, nothing cached yet.
InitSessions ==
    /\ entry = "sessions"
    /\ NoBenchmark
    /\ ToolsIdle
    /\ HelpdeskIdle
    /\ root \in {rt \in RootStates : rt.scan = Files}
    /\ _file_cache = [p \in Procs |-> EmptyCache]
    /\ resolved = <<>>
    /\ loads = NoLoads

NextSessions ==
    \E t \in Threads :
        \/ \E f \in FileSet : LoadCall(t, f)
        \/ LoadCheck(t)
        \/ LoadRead(t)
        \/ LoadStore(t)
        \/ LoadReturn(t)

SpecSessions == InitSessions /\ [][NextSessions]_vars

\* ------------------------------------------------------- run_flow as a process
\* python run_flow.py <flow_file> --num-flows n
build_multiple_flows(n) ==
    /\ entry = "run_flow"
    /\ flows.ops < MaxFlowOps
    /\ \E num_flows \in {ClampFlows(n)} :
       \E fixture_hash \in {_compute_hash(<<"fixture", flows.fixture>>)} :
       \E template_hash \in {_compute_hash(<<"template", flows.template>>)} :
           IF _check_cache_valid(fixture_hash, template_hash, num_flows, flows.meta, flows.files)
           THEN flows' = [flows EXCEPT
                            !.ops = @ + 1,
                            !.last = [op |-> "build_multiple_flows", hit |-> TRUE,
                                      num_flows |-> num_flows]]
           ELSE flows' = [flows EXCEPT
                            !.files = [k \in 1..MaxFlows |->
                                          IF k <= num_flows
                                          THEN Some(MultiFlow(k, flows.suite, flows.template,
                                                              flows.fixture))
                                          ELSE flows.files[k]],
                            !.meta = Some([fixture_hash |-> fixture_hash,
                                           template_hash |-> template_hash,
                                           num_flows |-> num_flows,
                                           expanded_files |-> [k \in 1..num_flows |-> k],
                                           created_at |-> flows.ops]),
                            !.ops = @ + 1,
                            !.last = [op |-> "build_multiple_flows", hit |-> FALSE,
                                      num_flows |-> num_flows]]
    /\ UNCHANGED <<entry, bench, repo, helpdesk, served>>

\* python run_flow.py <flow_file> --num-flows n --fast
build_fast_flows(n) ==
    /\ entry = "run_flow"
    /\ flows.ops < MaxFlowOps
    /\ flows' = [flows EXCEPT
                    !.files = [k \in 1..MaxFlows |->
                                  IF k <= ClampFlows(n)
                                  THEN Some(FastFlow(k, flows.template, flows.ops))
                                  ELSE flows.files[k]],
                    !.ops = @ + 1,
                    !.last = [op |-> "build_fast_flows", hit |-> FALSE,
                              num_flows |-> ClampFlows(n)]]
    /\ UNCHANGED <<entry, bench, repo, helpdesk, served>>

\* python run_flow.py <flow_file> flows/_expanded_NN.json
build_expanded_flow(output_file) ==
    /\ entry = "run_flow"
    /\ flows.ops < MaxFlowOps
    /\ flows' = [flows EXCEPT
                    !.files[output_file] = Some(SingleFlow(flows.template, flows.fixture)),
                    !.ops = @ + 1,
                    !.last = [op |-> "build_expanded_flow", hit |-> FALSE, num_flows |-> 1]]
    /\ UNCHANGED <<entry, bench, repo, helpdesk, served>>

\* flows/prompt_suite.json, the flow template or a fixture file is edited.
EditInput(which, v) ==
    /\ entry = "run_flow"
    /\ flows.ops < MaxFlowOps
    /\ flows[which] # v
    /\ flows' = [flows EXCEPT ![which] = v,
                              !.ops = @ + 1,
                              !.last = [op |-> "edit", hit |-> FALSE, num_flows |-> 0]]
    /\ UNCHANGED <<entry, bench, repo, helpdesk, served>>

InitFlows ==
    /\ entry = "run_flow"
    /\ NoBenchmark
    /\ RepoIdle
    /\ HelpdeskIdle
    /\ flows = NoFlows
    /\ served = NoServed

NextFlows ==
    \/ \E n \in 0..MaxFlows : build_multiple_flows(n)
    \/ \E n \in 0..MaxFlows : build_fast_flows(n)
    \/ \E k \in 1..MaxFlows : build_expanded_flow(k)
    \/ \E which \in {"suite", "template", "fixture"} :
           \E v \in InputVersions : EditInput(which, v)

SpecFlows == InitFlows /\ [][NextFlows]_vars

\* -------------------------------------------------------- target_vllm.run
\* run(step_name): the flow index is taken before the step is appended; the
\* call raises if the flow file is missing or the flow has no such step.
run(step_name) ==
    /\ entry = "target_vllm"
    /\ Len(served.runs) < MaxCalls
    /\ \E current_flow_idx \in {_get_current_flow_idx(served._step_sequence)} :
       \E flow \in {_load_flow(current_flow_idx + 1, served._flows_cache)} :
           served' = [_step_sequence |-> Append(served._step_sequence, step_name),
                      _flows_cache |-> flow.cache,
                      runs |-> Append(served.runs,
                                  [step_name |-> step_name,
                                   current_flow_idx |-> current_flow_idx,
                                   loaded |-> IF flow.raised THEN None
                                              ELSE Some(current_flow_idx + 1),
                                   raised |-> flow.raised
                                              \/ step_name \notin {STEP_NAMES[k] : k \in 1..NumSteps}])]
    /\ UNCHANGED <<entry, bench, repo, helpdesk, flows>>

InitServed ==
    /\ entry = "target_vllm"
    /\ NoBenchmark
    /\ RepoIdle
    /\ HelpdeskIdle
    /\ flows = NoFlows
    /\ served = NoServed

NextServed == \E step_name \in StepNamesPassed : run(step_name)

SpecServed == InitServed /\ [][NextServed]_vars

\* ================================================================= properties
LastCall == calls[Len(calls)]

\* C1: within one tracker session, whatever sequence of record and has_seen
\* calls is made, no call removes an id from seen_ids (so has_seen, once true
\* for an id, stays true for it) and neither total_sent nor reuse_hits ever
\* decreases.
C1_TrackerMonotonic ==
    [][ /\ tracker.seen_ids \subseteq tracker'.seen_ids
        /\ \A id \in Ids : has_seen(tracker, id) => has_seen(tracker', id)
        /\ tracker'.total_sent >= tracker.total_sent
        /\ tracker'.reuse_hits >= tracker.reuse_hits ]_vars

\* A session in which ids were recorded, recorded again and asked about.
C1_Witness ==
    /\ entry = "tracker_api"
    /\ Cardinality(tracker.seen_ids) >= 2
    /\ tracker.reuse_hits >= 2
    /\ Len(calls) = 2
    /\ calls[1].op = "record" /\ ~calls[1].ret
    /\ calls[2].op = "has_seen" /\ calls[2].ret

\* C5: record(id, text) on an id that is not in seen_ids adds it to seen_ids,
\* stores text under it, adds one to total_sent, leaves reuse_hits alone and
\* returns True; on an id already in seen_ids it adds one to reuse_hits,
\* leaves seen_ids, the snippets map and total_sent alone and returns False.
C5_RecordEffects ==
    (calls # <<>> /\ LastCall.op = "record") =>
        LET c == LastCall
            b == c.before
        IN  IF c.id \notin b.seen_ids
            THEN /\ tracker.seen_ids = b.seen_ids \cup {c.id}
                 /\ DOMAIN tracker.snippets = DOMAIN b.snippets \cup {c.id}
                 /\ tracker.snippets[c.id] = c.text
                 /\ \A x \in DOMAIN b.snippets : tracker.snippets[x] = b.snippets[x]
                 /\ tracker.total_sent = b.total_sent + 1
                 /\ tracker.reuse_hits = b.reuse_hits
                 /\ c.ret = TRUE
            ELSE /\ tracker.reuse_hits = b.reuse_hits + 1
                 /\ tracker.seen_ids = b.seen_ids
                 /\ tracker.snippets = b.snippets
                 /\ tracker.total_sent = b.total_sent
                 /\ c.ret = FALSE

\* A new id recorded, then the same id recorded again with another text.
C5_Witness ==
    /\ entry = "tracker_api"
    /\ Len(calls) = 2
    /\ calls[1].op = "record" /\ calls[1].ret
    /\ calls[2].op = "record" /\ ~calls[2].ret
    /\ calls[2].id = calls[1].id
    /\ calls[2].text # calls[1].text
    /\ tracker.snippets[calls[2].id] = calls[1].text

\* C6: has_seen(id) changes nothing of the tracker, and its answer is True
\* exactly when a record(id, text) made immediately after it returns False.
C6_HasSeenPureAndPredicts ==
    /\ (calls # <<>> /\ LastCall.op = "has_seen") =>
           /\ tracker = LastCall.before
           /\ LastCall.ret = (LastCall.id \in tracker.seen_ids)
    /\ (Len(calls) = 2 /\ calls[1].op = "has_seen" /\ calls[2].op = "record"
        /\ calls[1].id = calls[2].id) =>
           (calls[1].ret <=> ~calls[2].ret)

\* has_seen answered False for an id with other ids seen, and the record that
\* followed returned True.
C6_Witness ==
    /\ entry = "tracker_api"
    /\ Len(calls) = 2
    /\ calls[1].op = "has_seen" /\ ~calls[1].ret
    /\ calls[1].before.seen_ids # {}
    /\ calls[2].op = "record" /\ calls[2].ret
    /\ calls[1].id = calls[2].id

\* ------------------------------------------------------- prompts of a session
LastStep == trace[Len(trace)]
ReferenceSession == trace # <<>> /\ trace[1].mode \in {"treatment", "le0"}

\* A lookup rendered in full: its line labels it by id and its text is among
\* the embedded texts; rendered as a reference: its line is the reference line.
IsFull(line, lookup, texts) ==
    /\ line.kind = "snippet_id_label"
    /\ line.snippet_id = lookup.snippet_id
    /\ lookup.snippet_text \in texts
IsReference(line, lookup) ==
    line = [kind |-> "snippet_reference", snippet_id |-> lookup.snippet_id]

\* The same of lookup k of step s.
IsFullAt(s, k) ==
    IsFull(EntryLines(s.entries)[k], execute_lookups(s.task)[k], EmbeddedTexts(s.entries))
IsReferenceAt(s, k) ==
    IsReference(EntryLines(s.entries)[k], execute_lookups(s.task)[k])

\* How many times the steps of the session so far embed text t.
RECURSIVE TimesEmbedded(_, _)
TimesEmbedded(tr, t) ==
    IF tr = <<>> THEN 0
    ELSE Len(SelectSeq(tr[1].entries,
                       LAMBDA p : p.kind = "snippet_text" /\ p.snippet_text = t))
         + TimesEmbedded(Tail(tr), t)

\* The lookups rendered so far in session order (task, then step, then
\* position in the lookup list), each with how its step's prompt renders it.
RECURSIVE Occurrences(_)
Occurrences(tr) ==
    IF tr = <<>> THEN <<>>
    ELSE LET s == tr[Len(tr)]
             lookups == execute_lookups(s.task)
             lines == EntryLines(s.entries)
             texts == EmbeddedTexts(s.entries)
         IN  Occurrences(SubSeq(tr, 1, Len(tr) - 1))
             \o [k \in 1..Len(lookups) |->
                    [snippet_id |-> lookups[k].snippet_id,
                     snippet_text |-> lookups[k].snippet_text,
                     full |-> IsFull(lines[k], lookups[k], texts),
                     reference |-> IsReference(lines[k], lookups[k])]]

\* C2: in reference mode, a lookup whose snippet_id was in the tracker's seen
\* set before the step's prompt was assembled is rendered as the reference
\* line carrying that id, and the prompt does not embed its text.
C2_SeenIdsAreReferences ==
    (ReferenceSession) =>
        LET s == LastStep
            lookups == execute_lookups(s.task)
            lines == EntryLines(s.entries)
            texts == EmbeddedTexts(s.entries)
        IN  /\ Len(lines) = Len(lookups)
            /\ \A k \in 1..Len(lookups) :
                   lookups[k].snippet_id \in s.seen_before =>
                       /\ IsReference(lines[k], lookups[k])
                       /\ lookups[k].snippet_text \notin texts
                       /\ \A j \in 1..Len(lines) :
                              lines[j].kind = "snippet_id_label" =>
                                  lines[j].snippet_id # lookups[k].snippet_id

\* A step of a later task that meets both an id seen in an earlier task and a new one.
C2_Witness ==
    /\ ReferenceSession
    /\ LastStep.task = 2
    /\ LastStep.step = 1
    /\ \E k, j \in 1..LookupsPerTask :
           /\ execute_lookups(2)[k].snippet_id \in LastStep.seen_before
           /\ execute_lookups(2)[j].snippet_id \notin LastStep.seen_before
           /\ IsReferenceAt(LastStep, k)

\* C3: over a reference-mode session, an occurrence of a snippet_id is
\* embedded with its full text exactly when no earlier occurrence (task, then
\* step, then position in the lookup list) carries the same id, every other
\* occurrence is a reference line, and each text retrieved so far has been
\* embedded exactly once.
C3_FullExactlyOnceAtFirstOccurrence ==
    (ReferenceSession) =>
        \A occ \in {Occurrences(trace)} :
            /\ \A p \in 1..Len(occ) :
                   IF \E q \in 1..(p - 1) : occ[q].snippet_id = occ[p].snippet_id
                   THEN occ[p].reference /\ ~occ[p].full
                   ELSE occ[p].full /\ ~occ[p].reference
            /\ \A t \in Texts :
                   TimesEmbedded(trace, t) =
                       IF \E p \in 1..Len(occ) : occ[p].snippet_text = t THEN 1 ELSE 0

\* A finished two-task session where one task retrieves the same text twice
\* and the next task brings both an old and a new text.
C3_Witness ==
    /\ ReferenceSession
    /\ Len(trace) = 2 * NumSteps
    /\ catalog[1][1] = catalog[1][2]
    /\ \E k \in 1..LookupsPerTask : catalog[2][k] = catalog[1][1]
    /\ \E k \in 1..LookupsPerTask : \A j \in 1..LookupsPerTask : catalog[2][k] # catalog[1][j]

\* C4: for every task of a reference-mode run, the reported avoided_tokens is
\* the sum, over the task's steps, of token_estimate over the lookups whose
\* record call returned False, whatever the lookup list.
C4_AvoidedIsSumOverReferences ==
    (trace # <<>> /\ trace[1].mode = "treatment") =>
        \A t \in 1..Len(all_tasks) :
            all_tasks[t].avoided_tokens =
                SumSeq([n \in 1..NumSteps |->
                           LET s == trace[(t - 1) * NumSteps + n]
                           IN  SumEstimates(execute_lookups(t),
                                            [k \in 1..Len(s.is_new) |-> ~s.is_new[k]])])

\* C8: in a two-task reference-mode run whose tasks retrieve the same three
\* queries with three distinct ids, the first step of task 1 sends all three
\* in full, the other fifteen lookups are references, and after the run the
\* unique-snippet count is 3, total_sent is 3, reuse_hits is 15 and the reuse
\* rate is 15/18.
C8_TwoTaskScenario ==
    (/\ ReferenceSession
     /\ Len(trace) = 2 * NumSteps
     /\ catalog[1] = catalog[2]
     /\ Cardinality({catalog[1][k] : k \in 1..LookupsPerTask}) = 3) =>
        /\ \A a \in 1..Len(trace) : \A k \in 1..LookupsPerTask :
               IF a = 1 THEN IsFullAt(trace[a], k) /\ trace[a].is_new[k]
               ELSE IsReferenceAt(trace[a], k) /\ ~trace[a].is_new[k]
        /\ Cardinality(tracker.seen_ids) = 3
        /\ tracker.total_sent = 3
        /\ tracker.reuse_hits = 15
        /\ get_reuse_rate(tracker)[1] * 18 = 15 * get_reuse_rate(tracker)[2]
        /\ treatmentR # None =>
               /\ treatmentR[1].unique_snippets = 3
               /\ treatmentR[1].reuse_rate[1] * 18 = 1500 * treatmentR[1].reuse_rate[2]
        /\ le0R # None =>
               /\ le0R[1].unique_snippets = 3
               /\ le0R[1].snippet_reuse_rate[1] * 18 = 1500 * le0R[1].snippet_reuse_rate[2]

\* The scenario's run has returned its result.
C8_Witness ==
    /\ treatmentR # None
    /\ numTasks = 2
    /\ catalog[1] = <<1, 2, 3>>
    /\ catalog[2] = <<1, 2, 3>>
    /\ Len(treatmentR[1].tasks) = 2

\* C9: every baseline step prompt embeds, for every retrieved lookup in order,
\* a label with its source path and line range followed by its full text,
\* whatever earlier steps or tasks embedded, and holds no reference line.
C9_BaselineEmbedsEverything ==
    (trace # <<>> /\ LastStep.mode = "baseline") =>
        LET lookups == execute_lookups(LastStep.task)
            entries == LastStep.entries
        IN  /\ Len(entries) = 2 * Len(lookups)
            /\ \A k \in 1..Len(lookups) :
                   /\ entries[2 * k - 1] = [kind |-> "snippet_label",
                                            source_path |-> lookups[k].source_path,
                                            line_range |-> lookups[k].line_range]
                   /\ entries[2 * k] = [kind |-> "snippet_text",
                                        snippet_text |-> lookups[k].snippet_text]
            /\ \A j \in 1..Len(prompt) : prompt[j].kind # "snippet_reference"

\* A later step of the second task, retrieving a text the first task retrieved.
C9_Witness ==
    /\ trace # <<>>
    /\ LastStep.mode = "baseline"
    /\ LastStep.task = 2
    /\ LastStep.step = NumSteps
    /\ catalog[2][1] = catalog[1][1]

\* C7: every reference-mode run starts from an empty tracker, a baseline run
\* neither reads nor writes the tracker, and the full-vs-reference decisions
\* of a reference-mode run are the same whatever ran before it in the process.
C7_FreshTracker ==
    /\ (pc \in {"treatment", "le0"} /\ trace = <<>>) => tracker = SnippetTracker
    /\ ReferenceSession => trace[1].seen_before = {}
    /\ \A a, b \in 1..Len(history) :
           (history[a].kind # "baseline" /\ history[b].kind # "baseline") =>
               history[a].decisions = history[b].decisions

C7_SessionsShareNoDedupState ==
    /\ []C7_FreshTracker
    /\ [][(pc = "baseline" \/ pc' = "baseline") => tracker' = tracker]_vars

\* A reference-mode run alone, then a baseline run, then a reference-mode run again.
C7_Witness ==
    /\ entry = "caller"
    /\ Len(history) = 3
    /\ history[1].kind = "treatment"
    /\ history[2].kind = "baseline"
    /\ history[3].kind = "treatment"
    /\ \E a \in 1..Len(history[3].decisions) : \E k \in 1..LookupsPerTask :
           ~history[3].decisions[a][k]

\* C10: when some step of the treatment run reported a reused-token count
\* above zero (every reported count being non-negative), the diagnostic is
\* compute-reuse, whatever the avoided tokens and the two reductions are.
C10_ReuseReportedMeansComputeReuse ==
    (entry = "compare_runner" /\ report # None /\ reports.positive) =>
        report[1].diagnostic = "compute-reuse"

\* A report on a run with avoided tokens in which only some steps reported reuse.
C10_Witness ==
    /\ entry = "compare_runner"
    /\ report # None
    /\ reports.positive
    /\ treatmentR[1].total_avoided_tokens > 0
    /\ treatmentR[1].total_reused_tokens = Some(4)
    /\ report[1].diagnostic = "compute-reuse"

\* ------------------------------------------------------------ the classifier
DiagnosticLabels == {"compute-reuse", "transmission-shrink", "mixed-signal", "no-reuse-detected"}

\* |P - T| < ToleranceBand on the two reductions of a report.
WithinTolerance(r) ==
    LET P == r.prefill_reduction_pct
        T == r.token_reduction_pct
        d == P[1] * T[2] - T[1] * P[2]
    IN  (IF d < 0 THEN -d ELSE d) < ToleranceBand * P[2] * T[2]

\* C11: the classifier gives exactly one of the four labels for every input;
\* when the reuse total is unknown or not above zero the label is
\* transmission-shrink iff A > 0 and |P - T| < 10, mixed-signal iff A > 0 and
\* |P - T| >= 10, and no-reuse-detected iff A = 0.
C11_DecisionTable ==
    (report # None /\ treatmentR # None) =>
        LET r == report[1]
            R == treatmentR[1].total_reused_tokens
            A == treatmentR[1].total_avoided_tokens
        IN  /\ r.diagnostic \in DiagnosticLabels
            /\ (R = None \/ ~(R[1] > 0)) =>
                   /\ r.diagnostic # "compute-reuse"
                   /\ r.diagnostic = "transmission-shrink" <=> (A > 0 /\ WithinTolerance(r))
                   /\ r.diagnostic = "mixed-signal" <=> (A > 0 /\ ~WithinTolerance(r))
                   /\ r.diagnostic = "no-reuse-detected" <=> (A = 0)

\* Reductions exactly ten points apart, avoided tokens, a reuse total of zero.
C11_Witness ==
    /\ entry = "caller"
    /\ report # None
    /\ treatmentR[1].total_reused_tokens = Some(0)
    /\ treatmentR[1].total_avoided_tokens > 0
    /\ report[1].token_reduction_pct = <<5000, 100>>
    /\ report[1].prefill_reduction_pct = <<4000, 100>>
    /\ report[1].diagnostic = "mixed-signal"

IsZeroPct(pct) == pct[1] = 0 /\ pct[2] # 0

\* C18: every whole-run percentage delta (transmitted tokens, total latency,
\* prefill latency, decode latency, energy) is 0, and is computed without a
\* division by zero, whenever its baseline denominator is 0.
C18_ZeroBaselineDeltas ==
    (report # None /\ baselineR # None) =>
        LET r == report[1]
            b == baselineR[1]
        IN  /\ \A pct \in {r.token_delta_pct, r.token_reduction_pct, r.latency_delta_pct,
                           r.prefill_delta_pct, r.prefill_reduction_pct,
                           r.decode_delta_pct, r.energy_delta_pct,
                           r.energy_savings_pct} : pct[2] # 0
            /\ b.total_client_tokens = 0 =>
                   IsZeroPct(r.token_delta_pct) /\ IsZeroPct(r.token_reduction_pct)
            /\ b.total_latency_ms = 0 => IsZeroPct(r.latency_delta_pct)
            /\ b.total_prefill_ms = 0 =>
                   IsZeroPct(r.prefill_delta_pct) /\ IsZeroPct(r.prefill_reduction_pct)
            /\ b.total_decode_ms = 0 => IsZeroPct(r.decode_delta_pct)
            /\ b.total_energy_j = 0 =>
                   IsZeroPct(r.energy_delta_pct) /\ IsZeroPct(r.energy_savings_pct)

\* A report on a baseline whose totals are all zero and a treatment whose are not.
C18_Witness ==
    /\ entry = "caller"
    /\ report # None
    /\ baselineR[1].total_client_tokens = 0
    /\ baselineR[1].total_latency_ms = 0
    /\ baselineR[1].total_prefill_ms = 0
    /\ baselineR[1].total_decode_ms = 0
    /\ baselineR[1].total_energy_j = 0
    /\ treatmentR[1].total_client_tokens > 0

\* ----------------------------------------------------- optional backend metrics
\* The reuse total a run must hold given what its steps reported.
ReusedExpected == IF reports.any THEN Some(reports.sum) ELSE None

\* C12: the run total of reused tokens is unknown exactly when no step of the
\* run reported a value; once a step has reported one the total is the sum of
\* the reported values, and a run whose steps all reported nothing never
\* totals 0.
C12_ReusedUnknownOrSum ==
    /\ pc \in {"baseline", "treatment"} =>
           /\ totals.reused_tokens = ReusedExpected
           /\ totals.reused_tokens = None <=> ~reports.any
    /\ (pc \in {"idle", "done"} /\ trace # <<>> /\ trace[1].mode = "baseline"
        /\ baselineR # None) =>
           baselineR[1].total_reused_tokens = ReusedExpected
    /\ (pc \in {"idle", "done"} /\ trace # <<>> /\ trace[1].mode = "treatment"
        /\ treatmentR # None) =>
           treatmentR[1].total_reused_tokens = ReusedExpected

\* A finished run in which one step reported a count and another reported nothing.
C12_Witness ==
    /\ pc \in {"idle", "done"}
    /\ trace # <<>> /\ trace[1].mode = "treatment"
    /\ treatmentR # None
    /\ reports.any /\ reports.absent
    /\ treatmentR[1].total_reused_tokens = Some(4)

\* C13: when the backend supplies no energy estimate at any step, the runs'
\* total_energy_j and the energy delta of the report are not defaulted to 0.
C13_EnergyUnknownNotZero ==
    (\A resp \in backend : resp.metrics.energy_j = None) =>
        /\ baselineR # None => baselineR[1].total_energy_j # 0
        /\ treatmentR # None => treatmentR[1].total_energy_j # 0
        /\ report # None => ~IsZeroPct(report[1].energy_delta_pct)

\* ------------------------------------------------------- order of step calls
\* The number of tasks of the running (or last) session.
SessionTasks == IF trace # <<>> /\ trace[1].mode = "le0" THEN Le0NumTasks ELSE CompareNumTasks

\* C14: within one mode the backend calls are made in the order (task 1,
\* planner), (task 1, executor), (task 1, verifier), (task 2, planner), ...:
\* three per task, each prompt assembled with the previous call's output
\* already returned.
C14_CallsInOrder ==
    (trace # <<>>) =>
        /\ Len(trace) <= SessionTasks * 3
        /\ \A k \in 1..Len(trace) :
               /\ trace[k].mode = trace[1].mode
               /\ trace[k].task = ((k - 1) \div 3) + 1
               /\ trace[k].step = ((k - 1) % 3) + 1
        /\ prompt[Len(prompt)] =
               [kind |-> "instruction",
                step_name |-> <<"planner", "executor", "verifier">>[LastStep.step]]
        /\ LastStep.step > 1 =>
               \E j \in 1..Len(prompt) :
                   /\ prompt[j].kind = "prior_output"
                   /\ prompt[j].by = <<LastStep.mode, LastStep.task, LastStep.step - 1>>
        /\ Len(prior) = LastStep.step
        /\ prior[Len(prior)].by = <<LastStep.mode, LastStep.task, LastStep.step>>
        /\ pc \in {"idle", "done"} => Len(trace) = SessionTasks * 3

\* A finished session of two tasks.
C14_Witness ==
    /\ pc \in {"idle", "done"}
    /\ Len(trace) = 6
    /\ trace[1].mode = "treatment"
    /\ numTasks = 2

\* The prior-output parts of the prompt assembled last, in prompt order.
PriorOutputsInPrompt == SelectSeq(prompt, LAMBDA p : p.kind = "prior_output")

\* C16: the prompt of the k-th step of a task carries the outputs of exactly
\* steps 1..k-1 of that task, in step order, and no output of another task;
\* the planner prompt carries none.
C16_PriorOutputsOfSameTask ==
    (trace # <<>>) =>
        /\ Len(PriorOutputsInPrompt) = LastStep.step - 1
        /\ \A j \in 1..Len(PriorOutputsInPrompt) :
               /\ PriorOutputsInPrompt[j].by = <<LastStep.mode, LastStep.task, j>>
               /\ PriorOutputsInPrompt[j].index = j
        /\ LastStep.step = 1 => \A j \in 1..Len(prompt) : prompt[j].kind # "prior_heading"

\* The planner prompt of the second task, after the first task produced three outputs.
C16_Witness ==
    /\ trace # <<>>
    /\ LastStep.task = 2
    /\ LastStep.step = 1
    /\ LastStep.mode = "treatment"
    /\ PriorOutputsInPrompt = <<>>

\* ------------------------------------------------------------ backend failure
C15_NothingAfterFailure ==
    (failed # None) =>
        LET mode == failed[1][1]
            task_idx == failed[1][2]
            step_idx == failed[1][3]
        IN  /\ pc = "raised"
            /\ Len(trace) = (task_idx - 1) * 3 + (step_idx - 1)
            /\ report = None
            /\ mode = "baseline" => baselineR = None /\ treatmentR = None
            /\ mode = "treatment" => treatmentR = None
            /\ mode = "le0" => le0R = None

\* C15: when the backend call of (task i, step s) raises, the run makes no
\* further backend call (no retry, no later step or task), the exception
\* leaves the run, and the run returns no result record.
C15_FailureIsFatal ==
    /\ []C15_NothingAfterFailure
    /\ [][failed = None]_vars

\* The call of the executor step of the second treatment task has raised.
C15_Witness ==
    /\ failed = Some(<<"treatment", 2, 2>>)
    /\ pc = "raised"
    /\ baselineR # None
    /\ Len(trace) = 4

\* ---------------------------------------------------------- zero-task runs
\* C17: a run over zero tasks returns its report with averages defined as 0;
\* it never ends in a division error.
C17_ZeroTasksReturnsReport ==
    (entry # "le0_runner" /\ CompareNumTasks = 0) => pc # "raised"

\* ------------------------------------------------------------- reuse rate
\* C19: get_reuse_rate never divides by zero; on a tracker no record call has
\* touched it is 0, in every other state it is reuse_hits over
\* total_sent + reuse_hits, and it always lies in [0, 1).
C19_ReuseRateDefined ==
    \A rate \in {get_reuse_rate(tracker)} :
        LET total == tracker.total_sent + tracker.reuse_hits
        IN  /\ rate[2] > 0
            /\ tracker = SnippetTracker => rate[1] = 0
            /\ total > 0 => rate[1] * total = tracker.reuse_hits * rate[2]
            /\ 0 <= rate[1] /\ rate[1] < rate[2]

\* A tracker that sent two snippets and answered two lookups by reference.
C19_Witness ==
    /\ entry = "tracker_api"
    /\ tracker.total_sent = 2
    /\ tracker.reuse_hits = 2
    /\ get_reuse_rate(tracker)[1] * 2 = get_reuse_rate(tracker)[2]

\* ------------------------------------------------------- ids follow the text
\* C20: two lookups that return the same snippet_text carry the same
\* snippet_id, whatever their query, source path and line range; in a
\* reference session a lookup whose text an earlier lookup (of an earlier
\* step, or earlier in the same step) already returned is rendered as a
\* reference line.
C20_IdIsFunctionOfText ==
    \A all \in {[t \in DOMAIN catalog |-> execute_lookups(t)]} :
        /\ \A pairs \in {{<<all[t][k].snippet_text, all[t][k].snippet_id>> :
                             t \in DOMAIN catalog, k \in 1..LookupsPerTask}} :
               \A a, b \in pairs : a[1] = b[1] => a[2] = b[2]
        /\ ReferenceSession =>
               \A earlier \in {{all[trace[n].task][j].snippet_text :
                                   n \in 1..(Len(trace) - 1), j \in 1..LookupsPerTask}} :
                   LET s == LastStep
                       lines == EntryLines(s.entries)
                   IN  \A k \in 1..Len(all[s.task]) :
                           (\/ all[s.task][k].snippet_text \in earlier
                            \/ \E j \in 1..(k - 1) :
                                   all[s.task][j].snippet_text = all[s.task][k].snippet_text)
                               => IsReference(lines[k], all[s.task][k])

\* Two different queries of the first step return the same text, and so do a
\* query of the second task and one of the first: the later one is a reference.
C20_Witness ==
    /\ ReferenceSession
    /\ LastStep.task = 2
    /\ LastStep.step = 1
    /\ catalog[1][1] = catalog[1][2]
    /\ execute_lookups(1)[1].query # execute_lookups(1)[2].query
    /\ execute_lookups(1)[1].source_path # execute_lookups(1)[2].source_path
    /\ execute_lookups(1)[1].snippet_id = execute_lookups(1)[2].snippet_id
    /\ IsReference(EntryLines(trace[1].entries)[2], execute_lookups(1)[2])
    /\ \E k \in 1..LookupsPerTask :
           /\ catalog[2][k] = catalog[1][1]
           /\ IsReferenceAt(LastStep, k)

\* ------------------------------------------------- execute_task's snippet tokens
\* C35: in le0_runner.execute_task each step's new_snippet_tokens is the sum
\* of token_estimate over the snippets sent in full (record returned True) in
\* that step's prompt, and the task's total_snippet_tokens is the sum of
\* new_snippet_tokens over its steps.
C35_NewSnippetTokensAreSentInFull ==
    (entry = "le0_runner" /\ trace # <<>>) =>
        \E last \in {trace[Len(trace)]} :
            /\ Len(task.steps) = last.step
            /\ task.steps[last.step].new_snippet_tokens
                   = SumEstimates(execute_lookups(last.task), last.is_new)
            /\ task.total_snippet_tokens
                   = SumSeq([k \in 1..Len(task.steps) |-> task.steps[k].new_snippet_tokens])

\* ------------------------------------------------ tracker after a complete run
\* C37: after a complete reference-mode run over N tasks, total_sent +
\* reuse_hits is 3 times the number of lookups of tasks 1..N (every lookup is
\* recorded once per step), total_sent is the size of the seen set, and the
\* reported unique_snippets is the number of distinct ids among those lookups.
C37_TrackerTotalsAfterRun ==
    (entry = "compare_runner" /\ treatmentR # None /\ pc # "treatment") =>
        /\ tracker.total_sent + tracker.reuse_hits
               = 3 * SumSeq([t \in 1..CompareNumTasks |-> Len(execute_lookups(t))])
        /\ tracker.total_sent = Cardinality(tracker.seen_ids)
        /\ treatmentR[1].unique_snippets
               = Cardinality({execute_lookups(t)[k].snippet_id :
                                  t \in 1..CompareNumTasks, k \in 1..LookupsPerTask})

\* A finished reference-mode run over two tasks that share a text and repeat
\* one within a task.
C37_Witness ==
    /\ entry = "compare_runner"
    /\ treatmentR # None
    /\ pc # "treatment"
    /\ CompareNumTasks = 2
    /\ tracker.reuse_hits > 2 * tracker.total_sent
    /\ treatmentR[1].unique_snippets < 2 * LookupsPerTask
    /\ treatmentR[1].unique_snippets > 1

\* C38: in compare_runner's per-task reference-mode breakdown, new_snippets is
\* the number of the task's lookups whose id was first recorded (sent in full)
\* during that task; for task 1 it is the number of distinct ids of its lookups.
C38_NewSnippetsPerTask ==
    (entry = "compare_runner" /\ pc = "treatment") =>
        \A t \in 1..Len(all_tasks) :
            /\ all_tasks[t].new_snippets
                   = SumSeq([n \in 1..Len(trace) |->
                                IF trace[n].task = all_tasks[t].task
                                THEN CountLookups(execute_lookups(trace[n].task), trace[n].is_new)
                                ELSE 0])
            /\ all_tasks[t].task = 1 =>
                   all_tasks[t].new_snippets
                       = Cardinality({execute_lookups(1)[k].snippet_id : k \in 1..LookupsPerTask})

\* ------------------------------------------------------- repo_lookup records
\* The records the calls made so far returned.
Returned == {resolved[k].result[1] : k \in {n \in 1..Len(resolved) : ~resolved[n].raised}}

\* C21: for every query, every not-found case included, token_estimate is the
\* UTF-8 byte length of the returned snippet_text integer-divided by 4.
C21_EstimateIsBytesOverFour ==
    \A r \in Returned : r.token_estimate = r.snippet_text.bytes \div 4

\* C22: for every query string the returned snippet_text is at most
\* MAX_SNIPPET_SIZE (2000) characters long, placeholders included.
C22_TextAtMostMaxSnippetSize ==
    \A r \in Returned : r.snippet_text.chars <= 2000

\* The query matches nothing in the content root it was resolved against.
IsNotFound(c) ==
    LET q == c.query
        exists == {f \in FileSet : c.root.version[f] # 0}
    IN  CASE q.kind = "file" -> \A f \in exists : ~NameContains(f, q.word)
          [] q.kind \in {"func", "class"} -> q.word # "route"
          [] q.kind = "search" -> q.word # "route"
          [] OTHER -> TRUE

\* C23: repo_lookup never raises, whatever the query string: a query that
\* matches nothing, an unrecognised prefix and a malformed line-range suffix
\* all yield a well-formed record, and in the not-found cases the text is the
\* placeholder of the query and snippet_id is its hash.
C23_NeverRaises ==
    \A k \in 1..Len(resolved) :
        LET c == resolved[k]
        IN  /\ ~c.raised
            /\ DOMAIN c.result[1] = {"query", "source_path", "line_range", "snippet_text",
                                     "snippet_id", "token_estimate"}
            /\ IsNotFound(c) =>
                   /\ c.result[1].snippet_text = NotFoundText(c.query)
                   /\ c.result[1].snippet_id = _get_snippet_id(NotFoundText(c.query))

\* C24: two calls of repo_lookup with the same query, made with the content
\* root in the same state, in the same or in different processes and whatever
\* was resolved in between, return the same snippet_text and snippet_id.
C24_ResolutionDeterministic ==
    \A a, b \in 1..Len(resolved) :
        (/\ resolved[a].query = resolved[b].query
         /\ resolved[a].root = resolved[b].root
         /\ ~resolved[a].raised /\ ~resolved[b].raised) =>
            /\ resolved[a].result[1].snippet_text = resolved[b].result[1].snippet_text
            /\ resolved[a].result[1].snippet_id = resolved[b].result[1].snippet_id

\* --------------------------------------------------------- scan order of lookups
\* The content process p reads for file f: its cached copy, else the disk's.
ContentSeen(f, rt, fc) == IF fc[f] # None THEN fc[f][1] ELSE ReadOrBlank(f, rt)

\* File f exists and the content read for it matches the query.
FileMatches(q, f, rt, fc) ==
    /\ rt.version[f] # 0
    /\ ContentSeen(f, rt, fc) # 0
    /\ \E c \in {Content(f, ContentSeen(f, rt, fc))} :
           CASE q.kind = "func" -> q.word \in DOMAIN c.funcs
             [] q.kind = "class" -> q.word \in DOMAIN c.classes
             [] OTHER -> q.word \in DOMAIN c.hits

\* The matching lines of the matching files, in path order then line order.
RECURSIVE HitsInPathOrder(_, _, _, _)
HitsInPathOrder(files, q, rt, fc) ==
    IF files = <<>> THEN <<>>
    ELSE LET f == files[1]
             lines == IF FileMatches(q, f, rt, fc)
                      THEN Content(f, ContentSeen(f, rt, fc)).hits[q.word] ELSE <<>>
         IN  [k \in 1..Len(lines) |-> <<f, lines[k]>>]
                 \o HitsInPathOrder(Tail(files), q, rt, fc)

\* C31: function lookup, type lookup and keyword search visit the files in
\* path-sorted order: the returned snippet comes from the path-smallest
\* matching file (for keyword search, from the first 3 matches in path order
\* then line order), whatever order directory enumeration yields the files in.
C31_PathSortedScan ==
    [][\A p \in Procs : \A q \in {x \in Queries : x.kind \in {"func", "class", "search"}} :
          (Resolve(p, q) /\ \E f \in FileSet : FileMatches(q, f, root, _file_cache[p])) =>
              \E r \in {resolved'[Len(resolved')].result[1]} :
                  \E first \in {Files[CHOOSE k \in 1..Len(Files) :
                                    /\ FileMatches(q, Files[k], root, _file_cache[p])
                                    /\ \A j \in 1..(k - 1) :
                                           ~FileMatches(q, Files[j], root, _file_cache[p])]} :
                      /\ r.source_path = first
                      /\ q.kind = "search" \/ r.snippet_text.body[2] = first
                      /\ q.kind = "search" =>
                             \E all \in {HitsInPathOrder(Files, q, root, _file_cache[p])} :
                                 [k \in 1..Len(r.snippet_text.body[2]) |->
                                      <<r.snippet_text.body[2][k][1], r.snippet_text.body[2][k][3]>>]
                                     = SubSeq(all, 1, Min2(Len(all), 3))]_vars

\* C32: for a query file:<name>:<start>-<end> on a file of L lines the result
\* is the requested line range clamped to the file: the reported line_range
\* [s, e] satisfies 1 <= s <= e <= L and snippet_text is lines s..e of the file
\* (cut to the maximum size), also when start > end or start > L.
C32_LineRangeClamped ==
    \A k \in {n \in 1..Len(resolved) :
                  /\ resolved[n].query.kind = "file"
                  /\ resolved[n].query.suffix[1] = "range"
                  /\ ~resolved[n].raised
                  /\ resolved[n].result[1].source_path # ""} :
        \E r \in {resolved[k].result[1]} :
            \E c \in {Content(r.source_path, r.snippet_text.body[3])} :
                /\ 1 <= r.line_range[1]
                /\ r.line_range[1] <= r.line_range[2]
                /\ r.line_range[2] <= c.lines
                /\ r.snippet_text.body
                       = <<"lines", r.source_path, r.snippet_text.body[3],
                           r.line_range[1], r.line_range[2]>>
                /\ r.snippet_text.chars
                       = Min2(JoinedChars(r.line_range[2] - r.line_range[1] + 1, c.width),
                              MAX_SNIPPET_SIZE)

\* C33: unreadable files are skipped, not fatal: no lookup raises because a
\* file cannot be read, and the source_path of a result never names a file
\* whose content could not be read (for a file: query whose first candidate is
\* unreadable the result is a later readable candidate or the placeholder).
C33_UnreadableSkipped ==
    \A k \in 1..Len(resolved) :
        /\ resolved[k].raised => resolved[k].query.word \in IllFormedWords
        /\ ~resolved[k].raised =>
               \E r \in {resolved[k].result[1]} :
                   r.source_path # "" =>
                       IF r.query.kind = "search"
                       THEN \A n \in 1..Len(r.snippet_text.body[2]) :
                                r.snippet_text.body[2][n][2] # Blank
                       ELSE r.snippet_text.body[3] # Blank

\* --------------------------------------------------- concurrent _load_file
\* C34: the process-wide file cache is safe under concurrent use by two
\* sessions: on a fixed content root, in any interleaving of _load_file calls
\* every caller is returned the content a sequential call returns, the path has
\* one cache entry, and the value of a cache entry never changes afterwards.
C34_ConcurrentLoadsAgree ==
    /\ [](\A k \in 1..Len(loads.returned) :
              loads.returned[k].content = ReadOrBlank(loads.returned[k].filepath, root))
    /\ [](\A f \in FileSet :
              loads.stores[f] > 0 => _file_cache[1][f] = Some(ReadOrBlank(f, root)))
    /\ [][\A f \in FileSet :
              _file_cache[1][f] # None => _file_cache'[1][f] = _file_cache[1][f]]_vars

\* Both sessions found the path missing from the cache, both read and stored
\* it, and both have returned.
C34_Witness ==
    /\ entry = "sessions"
    /\ \E f \in FileSet :
           /\ loads.stores[f] = 2
           /\ root.version[f] # 0 /\ root.readable[f]
           /\ \A t \in Threads :
                  \E k \in 1..Len(loads.returned) :
                      /\ loads.returned[k].thread = t
                      /\ loads.returned[k].filepath = f

\* -------------------------------------------------------- expanded flow cache
\* C36: build_multiple_flows reuses the cached expanded flows only when its
\* inputs have not changed: whenever it takes the cache-hit path, the
\* flows/_expanded_NN.json files on disk are what regeneration from the current
\* prompt suite, flow template and fixture content would write, after any
\* sequence of build_multiple_flows, build_fast_flows and build_expanded_flow
\* runs and edits of the prompt suite.
C36_CacheHitMeansCurrent ==
    (flows.last.op = "build_multiple_flows" /\ flows.last.hit) =>
        \A k \in 1..flows.last.num_flows :
            flows.files[k] = Some(MultiFlow(k, flows.suite, flows.template, flows.fixture))

\* ------------------------------------------------------ flow index of a step
\* The calls so far came in the repeating order planner, executor, verifier.
CanonicalUpTo(n) == \A k \in 1..n : served.runs[k].step_name = STEP_NAMES[((k - 1) % 3) + 1]

\* C39: run attributes each step call to the flow whose 0-based index is the
\* number of "verifier" calls received before it: when the steps arrive in the
\* order planner, executor, verifier, the three calls of the k-th cycle all
\* load flow file k, and the flow index never decreases.
C39_FlowIndexCountsVerifiers ==
    \A n \in 1..Len(served.runs) :
        /\ served.runs[n].current_flow_idx
               = Cardinality({k \in 1..(n - 1) : served.runs[k].step_name = "verifier"})
        /\ (CanonicalUpTo(n) /\ ~served.runs[n].raised) =>
               served.runs[n].loaded = Some(((n - 1) \div 3) + 1)
        /\ n > 1 => served.runs[n - 1].current_flow_idx <= served.runs[n].current_flow_idx

\* Two whole cycles were served: the first three calls loaded flow file 1, the
\* next three flow file 2.
C39_Witness ==
    /\ entry = "target_vllm"
    /\ Len(served.runs) = 6
    /\ CanonicalUpTo(6)
    /\ \A n \in 1..6 : ~served.runs[n].raised
    /\ served.runs[3].loaded = Some(1)
    /\ served.runs[4].loaded = Some(2)
    /\ served.runs[6].loaded = Some(2)

FirstOfItsId(c, k) ==
    /\ c.lookups[k].snippet_id \notin c.before.seen_ids
    /\ \A j \in 1..(k - 1) : c.lookups[j].snippet_id # c.lookups[k].snippet_id

\* The snippet entries lookup k of call c is to be rendered as.
RenderedAs(c, k) ==
    LET lookup == c.lookups[k]
    IN  IF c.mode = "baseline"
        THEN <<[kind |-> "snippet_label", source_path |-> lookup.source_path,
                line_range |-> lookup.line_range],
               [kind |-> "snippet_text", snippet_text |-> lookup.snippet_text]>>
        ELSE IF FirstOfItsId(c, k)
        THEN <<[kind |-> "snippet_id_label", snippet_id |-> lookup.snippet_id,
                source_path |-> lookup.source_path, line_range |-> lookup.line_range],
               [kind |-> "snippet_text", snippet_text |-> lookup.snippet_text]>>
        ELSE <<[kind |-> "snippet_reference", snippet_id |-> lookup.snippet_id]>>

RECURSIVE RenderedInOrder(_, _)
RenderedInOrder(c, k) ==
    IF k > Len(c.lookups) THEN <<>> ELSE RenderedAs(c, k) \o RenderedInOrder(c, k + 1)

\* C26: in both modes the snippet entries of a prompt follow the order of the
\* retrieved lookup list, which is the catalog's query order; in reference
\* mode record is called on the lookups in that order, so of two lookups of
\* one step that share an id the earlier one is sent in full.
C26_EntriesInLookupOrder ==
    (calls # <<>> /\ LastCall.op = "assemble") =>
        \A c \in {LastCall} :
            /\ \A k \in 1..Len(c.lookups) :
                   c.lookups[k].query = get_predefined_lookups(c.task_idx)[k]
            /\ SnippetEntries(c.prompt) = RenderedInOrder(c, 1)
            /\ c.mode = "treatment" =>
                   /\ Len(c.is_new) = Len(c.lookups)
                   /\ \A k \in 1..Len(c.lookups) : c.is_new[k] = FirstOfItsId(c, k)

\* A reference-mode step on a fresh tracker whose first two lookups share an
\* id: the first is sent in full, the second is a reference.
C26_Witness ==
    /\ entry = "assembler"
    /\ calls # <<>>
    /\ LastCall.op = "assemble"
    /\ LastCall.mode = "treatment"
    /\ LastCall.before = SnippetTracker
    /\ LastCall.lookups[1].snippet_id = LastCall.lookups[2].snippet_id
    /\ LastCall.lookups[1].query # LastCall.lookups[2].query
    /\ LastCall.is_new = <<TRUE, FALSE, TRUE>>
    /\ EntryLines(SnippetEntries(LastCall.prompt))[2]
           = [kind |-> "snippet_reference", snippet_id |-> LastCall.lookups[2].snippet_id]

\* ---------------------------------------------------------------- rule engine
\* Rank of a priority under CRITICAL > HIGH > MEDIUM > LOW.
PriorityRank(p) ==
    CASE p = "critical" -> 4
      [] p = "high" -> 3
      [] p = "medium" -> 2
      [] OTHER -> 1

\* C27: get_highest_priority_match returns, among the rules whose condition
\* matches the ticket, one of the highest priority, and None when no rule
\* matches, after any sequence of add_rule and remove_rule calls.
C27_HighestPriorityMatch ==
    LET matching == {rules[k] : k \in {j \in 1..Len(rules) : Matched(rules[j])}}
        best == get_highest_priority_match(rules)
    IN  /\ matching = {} <=> best = None
        /\ best # None =>
               /\ best[1] \in matching
               /\ \A r \in matching : PriorityRank(best[1].priority) >= PriorityRank(r.priority)

\* --------------------------------------------------------------- ticket lifecycle
LifecycleChain ==
    {<<"new", "triaged">>, <<"triaged", "assigned">>, <<"assigned", "in_progress">>,
     <<"in_progress", "resolved">>, <<"resolved", "closed">>}

\* C28: Ticket.update accepts each step of the chain NEW -> TRIAGED ->
\* ASSIGNED -> IN_PROGRESS -> RESOLVED -> CLOSED, and on a CLOSED ticket
\* update(status=NEW) is rejected with ValueError and leaves the status CLOSED.
C28_LifecycleEnforced ==
    (calls # <<>> /\ LastCall.op = "update") =>
        /\ <<LastCall.before.status, LastCall.status>> \in LifecycleChain =>
               ~LastCall.raised /\ ticket[1].status = LastCall.status
        /\ (LastCall.before.status = "closed" /\ LastCall.status = "new") =>
               LastCall.raised /\ ticket[1].status = "closed"

\* C30: escalate on a RESOLVED or CLOSED ticket changes nothing; on any other
\* ticket it sets the status ESCALATED, records escalated_at and raises the
\* priority by exactly one level (CRITICAL stays CRITICAL), so that no
\* escalation lowers the priority.
C30_EscalationRule ==
    (calls # <<>> /\ LastCall.op = "escalate") =>
        \A before \in {LastCall.before} :
            /\ before.status \in {"resolved", "closed"} => ticket[1] = before
            /\ before.status \notin {"resolved", "closed"} =>
                   /\ ticket[1].status = "escalated"
                   /\ ticket[1].metadata.escalated_at = Some(LastCall.at)
                   /\ PriorityRank(ticket[1].priority)
                          = Min2(PriorityRank(before.priority) + 1, PriorityRank("critical"))
            /\ PriorityRank(ticket[1].priority) >= PriorityRank(before.priority)

\* A ticket escalated twice from HIGH: CRITICAL after the first call and still
\* CRITICAL after the second.
C30_Witness ==
    /\ entry = "ticket"
    /\ calls # <<>>
    /\ LastCall.op = "escalate"
    /\ LastCall.before.status = "escalated"
    /\ LastCall.before.priority = "critical"
    /\ LastCall.before.metadata.escalated_at = Some(0)
    /\ ticket[1].priority = "critical"
    /\ ticket[1].metadata.escalated_at = Some(1)

\* --------------------------------------------------------------------- cache
\* C29: an entry stored with set(key, value, ttl=None) never expires, also on
\* a cache constructed with a default_ttl: get returns its value after any
\* elapsed time; an entry stored with ttl=t is returned by get until more
\* than t seconds have elapsed and yields None afterwards.
C29_NoTtlNeverExpires ==
    (calls # <<>> /\ LastCall.op = "get" /\ LastCall.found # None) =>
        \A e \in {LastCall.found[1]} :
            /\ e.asked = None => LastCall.ret = Some(e.value)
            /\ (e.asked # None /\ e.asked[1] > 0) =>
                   IF LastCall.at - e.created_at > e.asked[1]
                   THEN LastCall.ret = None
                   ELSE LastCall.ret = Some(e.value)

====
